---- MODULE Spec2Model ----
(***************************************************************************)
(* Cart -> checkout -> order flow of the food delivery backend             *)
(* (source/routes/cart.js with the Cart, Food and Order mongoose models).  *)
(* Every route handler is a request that runs from one await to the next;  *)
(* requests of different slots interleave at their awaits.                 *)
(***************************************************************************)
EXTENDS Integers, Sequences, FiniteSets, TLC

(* ---------------------------------------------------------------------- *)
(* Bounds of the model                                                     *)
(* ---------------------------------------------------------------------- *)
MaxQty == 2
MaxRequests == 2
MaxLines == 2
MaxShopOps == 4
MaxWeekly == 6
MaxAuthOps == 3

Users == {"u1", "u2"}
FoodIds == {"f1", "f2"}
ShopIds == {"s1", "s2"}
Slots == {1, 2}
Prices == {10, 100}

(* ---------------------------------------------------------------------- *)
(* JavaScript values                                                       *)
(* ---------------------------------------------------------------------- *)
Undefined == "undefined"
UnknownFood == "f9"

\* request inputs as they arrive in req.body / req.params
FoodArgs == FoodIds \cup {UnknownFood, Undefined}
ShopArgs == ShopIds \cup {Undefined}
AddQtyArgs == {1, MaxQty}
QtyArgs == 0..MaxQty
IdxArgs == {"-1", "0", "1", "2", "abc"}
PayArgs == {"cod", "card", "upi", "wallet", "paypal", Undefined}

\* ToNumber of a route parameter (a string): [nan, n]
ToNumber(s) ==
  CASE s = "-1" -> [nan |-> FALSE, n |-> -1]
    [] s = "0" -> [nan |-> FALSE, n |-> 0]
    [] s = "1" -> [nan |-> FALSE, n |-> 1]
    [] s = "2" -> [nan |-> FALSE, n |-> 2]
    [] OTHER -> [nan |-> TRUE, n |-> 0]

\* itemIndex >= cart.items.length : a comparison with NaN is false
IndexGeLength(idx, len) ==
  LET k == ToNumber(idx) IN IF k.nan THEN FALSE ELSE k.n >= len

\* cart.items[itemIndex] : an own element only for an index 0..len-1
HasElement(idx, len) ==
  LET k == ToNumber(idx) IN ~k.nan /\ k.n >= 0 /\ k.n < len

\* the 1-based position of cart.items[itemIndex]
Position(idx) == ToNumber(idx).n + 1

\* Array.prototype.splice(start, 1): start is ToIntegerOrInfinity(itemIndex),
\* NaN counts as 0 and a negative start counts from the end
SpliceStart(idx, len) ==
  LET k == ToNumber(idx) IN
  IF k.nan THEN 0
  ELSE IF k.n < 0 THEN (IF len + k.n < 0 THEN 0 ELSE len + k.n)
  ELSE IF k.n > len THEN len ELSE k.n

SpliceOne(items, idx) ==
  LET start == SpliceStart(idx, Len(items)) IN
  [i \in 1..(IF start < Len(items) THEN Len(items) - 1 ELSE Len(items)) |->
     IF i <= start THEN items[i] ELSE items[i + 1]]

\* the rounding with Math.floor in place of Math.round
MathFloorFivePercent(x) == x \div 20

\* Math.round(x / 20) for x >= 0, i.e. Math.round(totalAmount * 0.05):
\* floor(x/20 + 1/2)
MathRoundFivePercent(x) == (x + 10) \div 20

\* !value for a string taken from the request body
Present(s) == s # Undefined /\ s # ""

(* ---------------------------------------------------------------------- *)
(* Documents                                                               *)
(* ---------------------------------------------------------------------- *)
FoodShop(f) == IF f = "f1" THEN "s1" ELSE "s2"
BasePrice(f) == IF f = "f1" THEN 10 ELSE 100
FoodName(f) == IF f = "f1" THEN "dosa" ELSE "thali"

\* a Food schema that declared the paths the cart route reads
FoodDocAliased(raw) ==
  [name |-> raw.name, price |-> raw.price, instock |-> raw.instock,
   shopid |-> raw.shopid, shop |-> raw.shopid, available |-> raw.instock]

\* a Food document as Food.findById hydrates it: the paths of FoodSchema
FoodDoc(raw) ==
  [name |-> raw.name, price |-> raw.price, instock |-> raw.instock,
   shopid |-> raw.shopid]

\* cartItemSchema
Line(f, s, q, p, sub) ==
  [food |-> f, shop |-> s, quantity |-> q, price |-> p, subtotal |-> sub]

\* cartSchema; v is the version key mongoose keeps for the items array
NewCart(u) ==
  [user |-> u, items |-> <<>>, totalAmount |-> 0, isCheckedOut |-> FALSE,
   v |-> 0]

NoCart == NewCart("")

RECURSIVE SumSubtotals(_)
SumSubtotals(items) ==
  IF items = <<>> THEN 0
  ELSE items[1].subtotal + SumSubtotals(Tail(items))

\* a save hook that keeps the total it finds
CartPreSaveStale(c) == c

\* cartSchema.pre('save'): totalAmount recomputed from the line items
CartPreSave(c) == [c EXCEPT !.totalAmount = SumSubtotals(c.items)]

\* schema validation run by cart.save(): quantity has min 1
CartValid(c) == \A i \in 1..Len(c.items) : c.items[i].quantity >= 1

\* OrderSchema validation run by order.save()
PaymentMethods == {"cod", "card", "upi", "wallet"}

OrderValid(o) ==
  /\ o.paymentMethod \in PaymentMethods
  /\ o.shopId # Undefined
  /\ \A i \in 1..Len(o.items) :
       o.items[i].quantity >= 1 /\ o.items[i].foodName # Undefined

DeliveryFee == 50

(* ---------------------------------------------------------------------- *)
(* Order ids                                                               *)
(* ---------------------------------------------------------------------- *)
\* Date.now(), in milliseconds: two orders may be created in the same
\* millisecond or in successive ones
Epoch == 700000000
Timestamps == {Epoch, Epoch + 1}

\* Math.floor(Math.random() * 1000)
RandomNums == {7, 42}

Digit(d) == CASE d = 0 -> "0" [] d = 1 -> "1" [] d = 2 -> "2" [] d = 3 -> "3"
              [] d = 4 -> "4" [] d = 5 -> "5" [] d = 6 -> "6" [] d = 7 -> "7"
              [] d = 8 -> "8" [] d = 9 -> "9"

\* Number.prototype.toString(): the decimal digits, as a sequence of characters
RECURSIVE NumToString(_)
NumToString(n) ==
  IF n < 10 THEN <<Digit(n)>>
  ELSE Append(NumToString(n \div 10), Digit(n % 10))

\* String.prototype.padStart(3, '0')
RECURSIVE PadStart3(_)
PadStart3(s) == IF Len(s) >= 3 THEN s ELSE PadStart3(<<"0">> \o s)

\* `ORD${timestamp}${randomNum}`
OrderIdOf(now, rnd) ==
  <<"O", "R", "D">> \o NumToString(now) \o PadStart3(NumToString(rnd))

\* OrderSchema.pre('save'): a new order without an id gets one
OrderPreSave(o, now, rnd) == [o EXCEPT !.orderId = OrderIdOf(now, rnd)]

\* an index that accepts every key
OrderIdNeverTaken(os, id) == FALSE

\* the unique index on orderId: the insert of a second order with the same
\* id fails with a duplicate key error
OrderIdTaken(os, id) == \E i \in 1..Len(os) : os[i].orderId = id

\* the clock does not run backwards
LatestOrder(os) ==
  IF os = <<>> THEN 0
  ELSE LET m == CHOOSE i \in 1..Len(os) :
                  \A j \in 1..Len(os) : os[j].createdAt <= os[i].createdAt
       IN os[m].createdAt

VARIABLES foods, carts, orders, reqs, last, issued, shops, shopResp, reviews,
          userDocs, otpStore, refreshTokenStore, clock, authReqs, authResp,
          handedOut

vars ==
  <<foods, carts, orders, reqs, last, issued, shops, shopResp, reviews,
    userDocs, otpStore, refreshTokenStore, clock, authReqs, authResp,
    handedOut>>

shopVars == <<shops, shopResp, reviews>>

\* the state of the auth routes: the users collection, the two in-memory
\* maps, Date.now(), the requests waiting at an await, the response most
\* recently sent and the tokens the responses have carried
authVars ==
  <<userDocs, otpStore, refreshTokenStore, clock, authReqs, authResp,
    handedOut>>

\* the email addresses of the requests: two spellings of one address, and
\* an address no user has
Emails == {"a@x.io", "A@x.io", "b@x.io"}

\* email.toLowerCase()
ToLowerCase(email) == IF email = "A@x.io" THEN "a@x.io" ELSE email

Addresses == {ToLowerCase(e) : e \in Emails}

\* bcrypt.hash(password, 12) and bcrypt.compare(password, hash)
BcryptHash(password) == <<"bcrypt", password>>
BcryptCompare(password, hash) == hash = BcryptHash(password)

\* a document of the users collection, written under its lowercased email,
\* which stands for its _id as well
NoUser == [exists |-> FALSE, password |-> <<>>, isAdmin |-> FALSE]
NewUser(password) ==
  [exists |-> TRUE, password |-> BcryptHash(password), isAdmin |-> FALSE]

\* otpStore.get(email) of an email without an entry
NoOtp == [otp |-> 0, expiresAt |-> 0]

\* refreshTokenStore.get(id) of a user without an entry, and a string that
\* is no token
NoToken == [kind |-> "none", id |-> "", iat |-> 0]

IdleAuthReq == [op |-> "none", email |-> "", password |-> "", token |-> NoToken]

NoAuthResponse == [op |-> "none", resp |-> "none"]

\* the auth routes before any request: one customer is registered
AuthInit ==
  /\ userDocs = [a \in Addresses |->
                   IF a = "a@x.io" THEN NewUser("secret1") ELSE NoUser]
  /\ otpStore = [e \in Emails |-> NoOtp]
  /\ refreshTokenStore = [a \in Addresses |-> NoToken]
  /\ clock = 0
  /\ authReqs = [r \in Slots |-> IdleAuthReq]
  /\ authResp = NoAuthResponse
  /\ handedOut = {}

NoResponse == [op |-> "none", user |-> "", resp |-> "none"]

IdleReq ==
  [op |-> "none", user |-> "", pc |-> "idle", food |-> "", shop |-> "",
   qty |-> 0, idx |-> "", pay |-> "", price |-> 0,
   cid |-> 0, loaded |-> NoCart, names |-> <<>>,
   isAdmin |-> FALSE, permanent |-> FALSE]

\* Cart.findOne({ user, isCheckedOut: false }): position of the first match
\* in the collection, 0 when there is none
RECURSIVE FirstOpen(_, _, _)
FirstOpen(cs, u, i) ==
  IF i > Len(cs) THEN 0
  ELSE IF cs[i].user = u /\ ~cs[i].isCheckedOut THEN i
  ELSE FirstOpen(cs, u, i + 1)

FindOpenCart(u) == FirstOpen(carts, u, 1)

\* shopSchema: rating.average is kept in tenths (41 is 4.1); distance is the
\* distance in metres from the point the requests are made at; location is
\* location.coordinates, <<longitude, latitude>> in degrees
NewShop(s) ==
  [exists |-> TRUE, owner |-> "u1", name |-> "cafe",
   rating |-> [average |-> 0, count |-> 0],
   online |-> TRUE, isActive |-> TRUE, isVerified |-> FALSE,
   isFeatured |-> FALSE, distance |-> 3000,
   cuisine |-> <<>>, menuCategory |-> <<>>, deliveryAvailable |-> TRUE,
   openTime |-> <<"0", "9", ":", "0", "0">>,
   closeTime |-> <<"2", "2", ":", "0", "0">>,
   foodLicence |-> "FL-1", phone |-> "9000000001", address |-> "MG Road",
   location |-> <<77, 12>>]

\* the number of Review documents of each shop
StoredReviews == [s \in ShopIds |-> 1]

NoShopResponse ==
  [status |-> "none", path |-> "", now |-> 0, limit |-> 0, shops |-> {},
   list |-> <<>>, open |-> {}]

(* ---------------------------------------------------------------------- *)
(* Initial state: the catalog, and the carts already in the store          *)
(* (each written by cart.save(), so with its total recomputed)             *)
(* ---------------------------------------------------------------------- *)
InitLine(f) == Line(f, FoodShop(f), 1, BasePrice(f), BasePrice(f))

InitItems ==
  {[i \in 1..Len(fs) |-> InitLine(fs[i])] :
     fs \in {x \in UNION {[1..n -> FoodIds] : n \in 0..MaxLines} :
               \A i, j \in 1..Len(x) : i # j => x[i] # x[j]}}

InitCartChoices ==
  {<<>>} \cup {<<[NewCart("u") EXCEPT !.items = it,
                                      !.totalAmount = SumSubtotals(it)]>> :
                 it \in InitItems}

Owned(cs, u) == [i \in 1..Len(cs) |-> [cs[i] EXCEPT !.user = u]]

Init ==
  /\ foods = [f \in FoodIds |->
               [exists |-> TRUE, name |-> FoodName(f), price |-> BasePrice(f),
                instock |-> TRUE, shopid |-> FoodShop(f)]]
  /\ \E c1 \in InitCartChoices, c2 \in InitCartChoices :
       /\ Len(c2) > 0 => Len(c2[1].items) = 1
       /\ carts = Owned(c1, "u1") \o Owned(c2, "u2")
  /\ orders = <<>>
  /\ reqs = [r \in Slots |-> IdleReq]
  /\ last = NoResponse
  /\ issued = 0
  /\ shops = [s \in ShopIds |-> NewShop(s)]
  /\ shopResp = NoShopResponse
  /\ reviews = StoredReviews
  /\ AuthInit

(* ---------------------------------------------------------------------- *)
(* Requests                                                                *)
(* ---------------------------------------------------------------------- *)
\* a request takes the first free slot
Free(r) ==
  /\ reqs[r].pc = "idle"
  /\ \A r2 \in Slots : r2 < r => reqs[r2].pc # "idle"
  /\ issued < MaxRequests

InFlight == \E r \in Slots : reqs[r].pc # "idle"

\* res.json / res.status(..).json: the response ends the request; last is
\* the response most recently sent
Finish(r, resp) ==
  /\ reqs' = [reqs EXCEPT ![r] = IdleReq]
  /\ last' = [op |-> reqs[r].op, user |-> reqs[r].user, resp |-> resp]

\* the request goes on to its next await
Continue(r, q) ==
  /\ reqs' = [reqs EXCEPT ![r] = q]
  /\ UNCHANGED last

\* a request arrives: it is answered before its first await when its input
\* is rejected; last holds the responses sent since the latest arrival
Arrived(r, q, rejected, resp) ==
  IF rejected
  THEN reqs' = reqs /\ last' = [op |-> q.op, user |-> q.user, resp |-> resp]
  ELSE reqs' = [reqs EXCEPT ![r] = q] /\ last' = NoResponse

\* cart.save() of a document read earlier as `loaded` and changed to
\* `local` writes only the paths that were modified.  kind is the change the
\* handler made to items: "push", "setIdx" (fields of element k), "splice",
\* "assign" (items = [...]) or "plain" (items untouched).
ItemsModified(loaded, local, kind, k) ==
  CASE kind = "push" -> TRUE
    [] kind = "splice" -> TRUE
    [] kind = "assign" -> local.items # loaded.items
    [] kind = "setIdx" ->
         \/ local.items[k].quantity # loaded.items[k].quantity
         \/ local.items[k].subtotal # loaded.items[k].subtotal
    [] OTHER -> FALSE

CartUpdateOne(db, loaded, local, kind, k) ==
  LET dirty == ItemsModified(loaded, local, kind, k) IN
  [db EXCEPT
     !.items =
        CASE kind = "push" -> Append(db.items, local.items[Len(local.items)])
          [] kind \in {"splice", "assign"} /\ dirty -> local.items
          [] kind = "setIdx" /\ dirty ->
               [db.items EXCEPT
                  ![k].quantity =
                     IF local.items[k].quantity # loaded.items[k].quantity
                     THEN local.items[k].quantity ELSE @,
                  ![k].subtotal =
                     IF local.items[k].subtotal # loaded.items[k].subtotal
                     THEN local.items[k].subtotal ELSE @]
          [] OTHER -> db.items,
     !.totalAmount =
        IF local.totalAmount # loaded.totalAmount THEN local.totalAmount
        ELSE db.totalAmount,
     !.isCheckedOut =
        IF local.isCheckedOut # loaded.isCheckedOut THEN local.isCheckedOut
        ELSE db.isCheckedOut,
     !.v = IF dirty /\ kind \in {"push", "splice", "assign"} THEN db.v + 1
           ELSE db.v]

\* a write to array positions, or of the whole array, carries the version
\* the document was read at
VersionMatches(db, loaded, local, kind, k) ==
  \/ kind = "push"
  \/ ~ItemsModified(loaded, local, kind, k)
  \/ db.v = loaded.v

\* await cart.save() and the response that follows it
CartSave(r, modified, kind, k) ==
  LET q == reqs[r]
      local == CartPreSave(modified)
  IN
  /\ UNCHANGED <<foods, orders, issued>>
  /\ IF ~CartValid(local)
     THEN carts' = carts /\ Finish(r, "internal")
     ELSE IF q.cid = 0
     THEN carts' = Append(carts, local) /\ Finish(r, "ok")
     ELSE IF ~VersionMatches(carts[q.cid], q.loaded, local, kind, k)
     THEN carts' = carts /\ Finish(r, "internal")
     ELSE /\ carts' = [carts EXCEPT
                         ![q.cid] = CartUpdateOne(@, q.loaded, local, kind, k)]
          /\ Finish(r, "ok")

(* ---------------------------------------------------------------------- *)
(* POST /add                                                               *)
(* ---------------------------------------------------------------------- *)
RequestAdd(r, u, f, s, n) ==
  /\ Free(r)
  /\ issued' = issued + 1
  /\ Arrived(r, [IdleReq EXCEPT !.op = "add", !.user = u, !.food = f,
                                !.shop = s, !.qty = n, !.pc = "findFood"],
             ~Present(f) \/ ~Present(s), "validation")
  /\ UNCHANGED <<foods, carts, orders>>

\* cart.items.findIndex(item => same food and same shop), 1-based, 0 = none
RECURSIVE FindIndex(_, _, _, _)
FindIndex(items, f, s, i) ==
  IF i > Len(items) THEN 0
  ELSE IF items[i].food = f /\ items[i].shop = s THEN i
  ELSE FindIndex(items, f, s, i + 1)

\* the cart after the merge or push of POST /add
AddToItems(items, f, s, n, price) ==
  LET k == FindIndex(items, f, s, 1) IN
  IF k > 0
  THEN [items EXCEPT ![k].quantity = items[k].quantity + n,
                     ![k].subtotal = (items[k].quantity + n) * price]
  ELSE Append(items, Line(f, s, n, price, price * n))

AddItem(r) ==
  LET q == reqs[r] IN
  /\ q.op = "add"
  /\ q.pc \in {"findFood", "findCart", "save"}
  /\ CASE q.pc = "findFood" ->
            /\ UNCHANGED <<foods, carts, orders, issued>>
            /\ IF q.food \notin FoodIds \/ ~foods[q.food].exists
               THEN Finish(r, "notfound")
               ELSE LET food == FoodDoc(foods[q.food]) IN
                    IF "shop" \notin DOMAIN food
                    THEN \* food.shop.toString() on undefined: TypeError
                         Finish(r, "internal")
                    ELSE IF food.shop # q.shop
                    THEN Finish(r, "conflict")
                    ELSE IF "available" \notin DOMAIN food \/ ~food.available
                    THEN Finish(r, "unavailable")
                    ELSE Continue(r, [q EXCEPT !.pc = "findCart",
                                               !.price = food.price])
       [] q.pc = "findCart" ->
            /\ UNCHANGED <<foods, carts, orders, issued>>
            /\ LET cid == FindOpenCart(q.user) IN
               Continue(r, [q EXCEPT !.pc = "save", !.cid = cid,
                                     !.loaded = IF cid = 0 THEN NewCart(q.user)
                                                ELSE carts[cid]])
       [] q.pc = "save" ->
            LET k == FindIndex(q.loaded.items, q.food, q.shop, 1)
                modified ==
                  [q.loaded EXCEPT
                     !.items = AddToItems(@, q.food, q.shop, q.qty, q.price)]
            IN CartSave(r, modified, IF k > 0 THEN "setIdx" ELSE "push", k)

(* ---------------------------------------------------------------------- *)
(* PUT /update/:itemIndex                                                  *)
(* ---------------------------------------------------------------------- *)
RequestUpdate(r, u, i, n) ==
  /\ Free(r)
  /\ issued' = issued + 1
  /\ Arrived(r, [IdleReq EXCEPT !.op = "update", !.user = u, !.idx = i,
                                !.qty = n, !.pc = "find"],
             n = 0 \/ n < 1, "validation")
  /\ UNCHANGED <<foods, carts, orders>>

UpdateItem(r) ==
  LET q == reqs[r] IN
  /\ q.op = "update"
  /\ q.pc \in {"find", "save"}
  /\ CASE q.pc = "find" ->
            /\ UNCHANGED <<foods, carts, orders, issued>>
            /\ LET cid == FindOpenCart(q.user) IN
               IF cid = 0
               THEN Finish(r, "notfound")
               ELSE IF IndexGeLength(q.idx, Len(carts[cid].items))
               THEN Finish(r, "notfound")
               ELSE IF ~HasElement(q.idx, Len(carts[cid].items))
               THEN \* cart.items[itemIndex] is undefined: TypeError
                    Finish(r, "internal")
               ELSE Continue(r, [q EXCEPT !.pc = "save", !.cid = cid,
                                          !.loaded = carts[cid]])
       [] q.pc = "save" ->
            LET k == Position(q.idx)
                modified ==
                  [q.loaded EXCEPT
                     !.items[k].quantity = q.qty,
                     !.items[k].subtotal = q.loaded.items[k].price * q.qty]
            IN CartSave(r, modified, "setIdx", k)

(* ---------------------------------------------------------------------- *)
(* DELETE /remove/:itemIndex                                               *)
(* ---------------------------------------------------------------------- *)
RequestRemove(r, u, i) ==
  /\ Free(r)
  /\ issued' = issued + 1
  /\ Arrived(r, [IdleReq EXCEPT !.op = "remove", !.user = u, !.idx = i,
                                !.pc = "find"], FALSE, "none")
  /\ UNCHANGED <<foods, carts, orders>>

RemoveItem(r) ==
  LET q == reqs[r] IN
  /\ q.op = "remove"
  /\ q.pc \in {"find", "save"}
  /\ CASE q.pc = "find" ->
            /\ UNCHANGED <<foods, carts, orders, issued>>
            /\ LET cid == FindOpenCart(q.user) IN
               IF cid = 0
               THEN Finish(r, "notfound")
               ELSE IF IndexGeLength(q.idx, Len(carts[cid].items))
               THEN Finish(r, "notfound")
               ELSE Continue(r, [q EXCEPT !.pc = "save", !.cid = cid,
                                          !.loaded = carts[cid]])
       [] q.pc = "save" ->
            CartSave(r, [q.loaded EXCEPT !.items = SpliceOne(@, q.idx)],
                     "splice", 0)

(* ---------------------------------------------------------------------- *)
(* DELETE /clear                                                           *)
(* ---------------------------------------------------------------------- *)
RequestClear(r, u) ==
  /\ Free(r)
  /\ issued' = issued + 1
  /\ Arrived(r, [IdleReq EXCEPT !.op = "clear", !.user = u, !.pc = "find"],
             FALSE, "none")
  /\ UNCHANGED <<foods, carts, orders>>

\* a clear that zeroes the total and leaves the lines
ClearedTotalOnly(c) == [c EXCEPT !.totalAmount = 0]

\* cart.items = []
Cleared(c) == [c EXCEPT !.items = <<>>]

ClearCart(r) ==
  LET q == reqs[r] IN
  /\ q.op = "clear"
  /\ q.pc \in {"find", "save"}
  /\ CASE q.pc = "find" ->
            /\ UNCHANGED <<foods, carts, orders, issued>>
            /\ LET cid == FindOpenCart(q.user) IN
               IF cid = 0
               THEN Finish(r, "ok")
               ELSE Continue(r, [q EXCEPT !.pc = "save", !.cid = cid,
                                          !.loaded = carts[cid]])
       [] q.pc = "save" ->
            CartSave(r, Cleared(q.loaded), "assign", 0)

(* ---------------------------------------------------------------------- *)
(* POST /checkout                                                          *)
(* ---------------------------------------------------------------------- *)
\* deliveryAddress and phoneNumber of the body: both there, or one missing
ContactArgs == {"ok", "missing"}

RequestCheckout(r, u, pay, contact) ==
  /\ Free(r)
  /\ issued' = issued + 1
  /\ Arrived(r, [IdleReq EXCEPT !.op = "checkout", !.user = u, !.pay = pay,
                                !.pc = "find"],
             ~Present(pay) \/ contact = "missing", "validation")
  /\ UNCHANGED <<foods, carts, orders>>

\* populate('items.food', 'name ...'): the name of each line's food,
\* undefined for a line whose food document is gone
Populate(items) ==
  [i \in 1..Len(items) |->
     IF foods[items[i].food].exists THEN foods[items[i].food].name
     ELSE Undefined]

\* a payment simulation that forgets upi
PaymentStatusCardOnly(pay) == IF pay = "card" THEN "completed" ELSE "pending"

\* the simulated payment
PaymentStatus(pay) == IF pay \in {"card", "upi"} THEN "completed" ELSE "pending"

HasPaymentId(pay) == pay \in {"cod", "card", "upi"}

\* the shop of the last line in place of the first
OrderShopOfLastLine(items) == items[Len(items)].shop

\* cart.items[0].shop._id
OrderShop(items) == items[1].shop

\* an order item priced from the populated food document
OrderItemAtCatalogPrice(line, name) ==
  [foodId |-> line.food, quantity |-> line.quantity,
   price |-> foods[line.food].price,
   subtotal |-> line.quantity * foods[line.food].price, foodName |-> name]

\* the cart.items.map callback: an order item copies the line
OrderItem(line, name) ==
  [foodId |-> line.food, quantity |-> line.quantity, price |-> line.price,
   subtotal |-> line.subtotal, foodName |-> name]

\* new Order({...}) built from the populated cart
BuildOrder(u, cid, cart, names, pay, now) ==
  LET taxes == MathRoundFivePercent(cart.totalAmount) IN
  [userId |-> u,
   orderId |-> <<>>,
   createdAt |-> now,
   shopId |-> OrderShop(cart.items),
   items |-> [i \in 1..Len(cart.items) |-> OrderItem(cart.items[i], names[i])],
   totalAmount |-> cart.totalAmount,
   deliveryFee |-> DeliveryFee,
   taxes |-> taxes,
   grandTotal |-> cart.totalAmount + DeliveryFee + taxes,
   paymentMethod |-> pay,
   paymentStatus |-> PaymentStatus(pay),
   hasPaymentId |-> HasPaymentId(pay),
   status |-> "confirmed",
   cart |-> cid]

\* the check without its length test
CartIsMissing(cid) == cid = 0

\* !cart || cart.items.length === 0
CartIsEmpty(cid) == cid = 0 \/ Len(carts[cid].items) = 0

Checkout(r, nows, rnds) ==
  LET q == reqs[r] IN
  /\ q.op = "checkout"
  /\ q.pc \in {"find", "saveOrder", "save"}
  /\ CASE q.pc = "find" ->
            /\ UNCHANGED <<foods, carts, orders, issued>>
            /\ LET cid == FindOpenCart(q.user) IN
               IF CartIsEmpty(cid)
               THEN Finish(r, "cartempty")
               ELSE IF cid = 0 \/ Len(carts[cid].items) = 0
               THEN \* cart.items[0].shop on no cart or no line: TypeError
                    Finish(r, "internal")
               ELSE IF ~shops[carts[cid].items[1].shop].exists
               THEN \* cart.items[0].shop._id on a null shop: TypeError
                    Finish(r, "internal")
               ELSE IF \E i \in 1..Len(carts[cid].items) :
                         Populate(carts[cid].items)[i] = Undefined
               THEN \* item.food._id on a null food: TypeError
                    Finish(r, "internal")
               ELSE Continue(r, [q EXCEPT
                                   !.pc = "saveOrder", !.cid = cid,
                                   !.loaded = carts[cid],
                                   !.names = Populate(carts[cid].items)])
       [] q.pc = "saveOrder" ->
            \E now \in nows, later \in nows, rnd \in rnds :
              LET order == OrderPreSave(
                             BuildOrder(q.user, q.cid, q.loaded, q.names,
                                        q.pay, now),
                             later, rnd)
              IN /\ LatestOrder(orders) <= now /\ now <= later
                 /\ UNCHANGED <<foods, carts, issued>>
                 /\ IF OrderValid(order) /\ ~OrderIdTaken(orders, order.orderId)
                    THEN /\ orders' = Append(orders, order)
                         /\ Continue(r, [q EXCEPT !.pc = "save"])
                    ELSE /\ orders' = orders
                         /\ Finish(r, "internal")
       [] q.pc = "save" ->
            CartSave(r, [q.loaded EXCEPT !.isCheckedOut = TRUE], "plain", 0)

(* ---------------------------------------------------------------------- *)
(* Catalog: PUT /update/:id, PATCH /toggle-stock/:id, DELETE /delete/:id   *)
(* of the food routes, issued by the shop owner or an admin                *)
(* ---------------------------------------------------------------------- *)
FoodUpdatePrice(f, p) ==
  /\ issued < MaxRequests
  /\ foods[f].exists
  /\ p # foods[f].price
  /\ foods' = [foods EXCEPT ![f].price = p]
  /\ issued' = issued + 1
  /\ UNCHANGED <<carts, orders, reqs, last>>

\* PUT /update/:id with a name in the body
FoodUpdateName(f, n) ==
  /\ issued < MaxRequests
  /\ foods[f].exists
  /\ n # foods[f].name
  /\ foods' = [foods EXCEPT ![f].name = n]
  /\ issued' = issued + 1
  /\ UNCHANGED <<carts, orders, reqs, last>>

FoodToggleStock(f) ==
  /\ issued < MaxRequests
  /\ foods[f].exists
  /\ foods' = [foods EXCEPT ![f].instock = ~@]
  /\ issued' = issued + 1
  /\ UNCHANGED <<carts, orders, reqs, last>>

FoodDelete(f) ==
  /\ issued < MaxRequests
  /\ foods[f].exists
  /\ foods' = [foods EXCEPT ![f].exists = FALSE]
  /\ issued' = issued + 1
  /\ UNCHANGED <<carts, orders, reqs, last>>

(* ---------------------------------------------------------------------- *)
(* Shops: the rating aggregate                                             *)
(* ---------------------------------------------------------------------- *)
\* Math.floor(n / d)
MathFloorDiv(n, d) == n \div d

\* Math.round(n / d) for n >= 0, d > 0: floor(n/d + 1/2)
MathRoundDiv(n, d) == (2 * n + d) \div (2 * d)

\* shopSchema.methods.updateRating, on averages kept in tenths:
\* Math.round(((total + newRating) / count) * 10) / 10
UpdatedRating(rating, newRating) ==
  LET total == rating.average * rating.count
      count == rating.count + 1
  IN [average |-> MathRoundDiv(total + 10 * newRating, count), count |-> count]

\* shopSchema: rating.average has min 0 and max 5
RatingValid(rating) == rating.average >= 0 /\ rating.average <= 50

RatingArgs == 1..5

\* shop.updateRating(newRating) and the this.save() it ends with
ShopUpdateRating(s, newRating) ==
  /\ issued < MaxShopOps
  /\ shops[s].exists
  /\ issued' = issued + 1
  /\ LET new == UpdatedRating(shops[s].rating, newRating) IN
     IF RatingValid(new)
     THEN /\ shops' = [shops EXCEPT ![s].rating = new]
          /\ last' = [op |-> "updateRating", user |-> "", resp |-> "ok"]
     ELSE /\ shops' = shops
          /\ last' = [op |-> "updateRating", user |-> "", resp |-> "internal"]
  /\ UNCHANGED <<foods, carts, orders, reqs, shopResp, reviews, authVars>>

(* ---------------------------------------------------------------------- *)
(* Shops: PUT /update/:id, POST /create, PATCH /:id/status,                *)
(* PATCH /admin/verify/:id                                                 *)
(* ---------------------------------------------------------------------- *)
\* req.user of the token: the owner of the shops, another user, an admin
Actors ==
  {[id |-> "u1", isAdmin |-> FALSE], [id |-> "u2", isAdmin |-> FALSE],
   [id |-> "u2", isAdmin |-> TRUE]}

\* req.body of a shop update: the fields it carries
ShopBodies ==
  {[name |-> "bistro"],
   [rating |-> [average |-> 50, count |-> 99]],
   [name |-> "cafe", rating |-> [average |-> 60, count |-> 1]]}

\* the paths of shopSchema among the fields of a shop
SchemaPaths ==
  {"name", "rating", "online", "isActive", "isVerified", "isFeatured",
   "cuisine", "menuCategory", "deliveryAvailable", "openTime", "closeTime",
   "foodLicence", "phone", "address", "location"}

\* shopSchema.pre('save'): the coordinates are within the ranges
CoordinatesInRange(location) ==
  ~(location[1] < -180 \/ location[1] > 180
      \/ location[2] < -90 \/ location[2] > 90)

\* an index that takes every point
GeoKeysAny(location) == TRUE

\* shopSchema.index({ location: '2dsphere' }): the store extracts the geo
\* keys of a document it writes, and refuses a point whose longitude or
\* latitude is out of bounds
GeoKeys(location) ==
  /\ -180 <= location[1] /\ location[1] <= 180
  /\ -90 <= location[2] /\ location[2] <= 90

\* the validators of the schema that the bodies below can fail
SchemaValid(shop) == RatingValid(shop.rating)

\* findByIdAndUpdate(id, { ...updateData }): every field of the body that
\* is a path of the schema is set
ShopSet(shop, body, unverify) ==
  [f \in DOMAIN shop |->
     IF f = "isVerified" /\ unverify THEN FALSE
     ELSE IF f \in DOMAIN body /\ f \in SchemaPaths THEN body[f]
     ELSE shop[f]]

\* the fields whose change asks for a new verification
MajorFields == {"name", "foodLicence", "address", "phone"}

ShopUpdate(s, actor, body) ==
  /\ issued < MaxShopOps
  /\ issued' = issued + 1
  /\ UNCHANGED <<foods, carts, orders, reqs, shopResp, reviews, authVars>>
  /\ LET shop == shops[s]
         requiresVerification ==
           \E f \in MajorFields :
             f \in DOMAIN body /\ Present(body[f]) /\ body[f] # shop[f]
         updated == ShopSet(shop, body, requiresVerification /\ ~actor.isAdmin)
         answer(resp) ==
           last' = [op |-> "shopUpdate", user |-> actor.id, resp |-> resp]
     IN IF ~shop.exists
        THEN shops' = shops /\ answer("notfound")
        ELSE IF shop.owner # actor.id /\ ~actor.isAdmin
        THEN shops' = shops /\ answer("forbidden")
        ELSE IF ~SchemaValid(updated) \/ ~GeoKeys(updated.location)
        THEN \* runValidators: true, and the write error of the store
             shops' = shops /\ answer("internal")
        ELSE shops' = [shops EXCEPT ![s] = updated] /\ answer("ok")

\* req.body of a shop creation; the fields validateShopData asks for and
\* that are not listed here are given and well-formed
CreateFields == {"name", "foodLicence", "phone", "address", "location"}

\* validateShopData
ValidShopData(body) == \A f \in CreateFields : f \in DOMAIN body

\* Shop.findOne({ $or: [{ name, 'address.city' }, { foodLicence }, { phone }] })
ExistingShop(body) ==
  \E t \in ShopIds :
    /\ shops[t].exists
    /\ \/ body.name = shops[t].name /\ body.address = shops[t].address
       \/ body.foodLicence = shops[t].foodLicence
       \/ body.phone = shops[t].phone

\* POST /create: s is the _id the new document gets
ShopCreate(s, actor, body) ==
  /\ issued < MaxShopOps
  /\ ~shops[s].exists
  /\ issued' = issued + 1
  /\ UNCHANGED <<foods, carts, orders, reqs, shopResp, reviews, authVars>>
  /\ LET created ==
           [ShopSet(NewShop(s), body, FALSE) EXCEPT
              !.owner = actor.id, !.isVerified = FALSE, !.online = TRUE,
              !.deliveryAvailable =
                 IF "deliveryAvailable" \in DOMAIN body
                 THEN body.deliveryAvailable ELSE TRUE]
         answer(resp) ==
           last' = [op |-> "shopCreate", user |-> actor.id, resp |-> resp]
     IN IF ~actor.isAdmin
             /\ ~("isShopOwner" \in DOMAIN actor /\ actor.isShopOwner)
        THEN shops' = shops /\ answer("forbidden")
        ELSE IF ~ValidShopData(body)
        THEN shops' = shops /\ answer("validation")
        ELSE IF ExistingShop(body)
        THEN shops' = shops /\ answer("duplicate")
        ELSE IF ~SchemaValid(created) \/ ~CoordinatesInRange(created.location)
                  \/ ~GeoKeys(created.location)
        THEN shops' = shops /\ answer("internal")
        ELSE shops' = [shops EXCEPT ![s] = created] /\ answer("created")

ShopSetOnline(s, actor, online) ==
  /\ issued < MaxShopOps
  /\ issued' = issued + 1
  /\ UNCHANGED <<foods, carts, orders, reqs, shopResp, reviews, authVars>>
  /\ LET shop == shops[s]
         answer(resp) ==
           last' = [op |-> "shopStatus", user |-> actor.id, resp |-> resp]
     IN IF ~shop.exists
        THEN shops' = shops /\ answer("notfound")
        ELSE IF shop.owner # actor.id /\ ~actor.isAdmin
        THEN shops' = shops /\ answer("forbidden")
        ELSE shops' = [shops EXCEPT ![s].online = online] /\ answer("ok")

ShopVerify(s, actor, isVerified) ==
  /\ issued < MaxShopOps
  /\ issued' = issued + 1
  /\ UNCHANGED <<foods, carts, orders, reqs, shopResp, reviews, authVars>>
  /\ LET answer(resp) ==
           last' = [op |-> "shopVerify", user |-> actor.id, resp |-> resp]
     IN IF ~actor.isAdmin
        THEN shops' = shops /\ answer("forbidden")
        ELSE /\ shops' = [shops EXCEPT
                            ![s].isVerified = IF shops[s].exists
                                              THEN isVerified ELSE @]
             /\ answer("ok")

(* ---------------------------------------------------------------------- *)
(* Shops: the virtual isCurrentlyOpen                                      *)
(* ---------------------------------------------------------------------- *)
Minute == 60000
MinutesPerDay == 1440

\* now.toTimeString().slice(0, 5) for the instant now (milliseconds), on a
\* server whose time zone is UTC: the characters of HH:MM
TimeString(now) ==
  LET m == (now \div Minute) % MinutesPerDay
      hh == m \div 60
      mm == m % 60
  IN <<Digit(hh \div 10), Digit(hh % 10), ":", Digit(mm \div 10), Digit(mm % 10)>>

\* the code unit of a character of a time
CharCode(c) ==
  CASE c = "0" -> 48 [] c = "1" -> 49 [] c = "2" -> 50 [] c = "3" -> 51
    [] c = "4" -> 52 [] c = "5" -> 53 [] c = "6" -> 54 [] c = "7" -> 55
    [] c = "8" -> 56 [] c = "9" -> 57 [] c = ":" -> 58

\* a < b on strings: the comparison of JavaScript, by code units
RECURSIVE StringLess(_, _)
StringLess(a, b) ==
  IF b = <<>> THEN FALSE
  ELSE IF a = <<>> THEN TRUE
  ELSE IF CharCode(a[1]) # CharCode(b[1]) THEN CharCode(a[1]) < CharCode(b[1])
  ELSE StringLess(Tail(a), Tail(b))

\* a >= b and a <= b on strings
StringGeq(a, b) == ~StringLess(a, b)
StringLeq(a, b) == ~StringLess(b, a)

\* shopSchema.virtual('isCurrentlyOpen')
IsCurrentlyOpen(shop, now) ==
  /\ StringGeq(TimeString(now), shop.openTime)
  /\ StringLeq(TimeString(now), shop.closeTime)

(* ---------------------------------------------------------------------- *)
(* Shops: GET /:id and GET /trending                                       *)
(* ---------------------------------------------------------------------- *)
UnknownShop == "s9"

\* the last segment of the URL of a GET below /api/shops
ShopPaths == ShopIds \cup {UnknownShop, "trending"}

\* id.match(/^[0-9a-fA-F]{24}$/): the ids are 24 hex digits, "trending" is not
IsObjectId(path) == path \in ShopIds \cup {UnknownShop}

\* the GET routes of one path segment, in the order the router registers
\* them; express hands a request to the first route that matches
ShopGetRoutes == <<"/:id", "/trending">>

RouteMatches(route, path) ==
  \/ route = "/:id"
  \/ route = "/trending" /\ path = "trending"

FirstMatch(path) ==
  LET k == CHOOSE i \in 1..Len(ShopGetRoutes) :
             /\ RouteMatches(ShopGetRoutes[i], path)
             /\ \A j \in 1..(i - 1) : ~RouteMatches(ShopGetRoutes[j], path)
  IN ShopGetRoutes[k]

MaxDistance == 15000
NearDistance == 5000
Week == 604800000
TrendingRating == 40
TrendingOrders == 5

\* $geoNear with its query
GeoNear ==
  {s \in ShopIds :
     /\ shops[s].exists
     /\ shops[s].distance <= MaxDistance
     /\ shops[s].isActive /\ shops[s].isVerified /\ shops[s].online}

\* $lookup into orders: the $match compares '$shopId' with '$shopId', the
\* order's own field on both sides, so the shop s of the outer document
\* does not enter the condition
WeeklyOrderCount(s, now) ==
  Cardinality({i \in 1..Len(orders) :
                 /\ orders[i].shopId = orders[i].shopId
                 /\ orders[i].status = "delivered"
                 /\ orders[i].createdAt >= now - Week})

\* $addFields trendingScore, in tenths
TrendingScore(s, now) ==
  2 * shops[s].rating.average + 10 * WeeklyOrderCount(s, now)
    + (IF shops[s].isFeatured THEN 50 ELSE 0)
    + (IF shops[s].distance <= NearDistance THEN 30 ELSE 0)

\* the $match on rating, weeklyOrders and isFeatured
TrendingMatch(now) ==
  {s \in GeoNear :
     \/ shops[s].rating.average >= TrendingRating
     \/ WeeklyOrderCount(s, now) >= TrendingOrders
     \/ shops[s].isFeatured}

\* $sort { trendingScore: -1, 'rating.average': -1 } and $limit: the sets a
\* limit can keep; documents that compare equal come in either order
RanksBefore(a, b, now) ==
  \/ TrendingScore(a, now) > TrendingScore(b, now)
  \/ /\ TrendingScore(a, now) = TrendingScore(b, now)
     /\ shops[a].rating.average > shops[b].rating.average

TrendingTop(now, limit) ==
  LET matched == TrendingMatch(now) IN
  {kept \in SUBSET matched :
     /\ Cardinality(kept) = IF limit < Cardinality(matched) THEN limit
                            ELSE Cardinality(matched)
     /\ \A a \in kept, b \in matched \ kept : ~RanksBefore(b, a, now)}

\* the orders in which the $sort can leave the documents kept
SortedLists(kept, now) ==
  {l \in [1..Cardinality(kept) -> kept] :
     /\ \A i, j \in 1..Len(l) : i # j => l[i] # l[j]
     /\ \A i, j \in 1..Len(l) : i < j => ~RanksBefore(l[j], l[i], now)}

LimitArgs == {1, 10}

\* GET /api/shops/<path>?latitude=..&longitude=..&limit=..
GetShopPath(path, now, limit) ==
  /\ issued < MaxRequests
  /\ issued' = issued + 1
  /\ UNCHANGED <<foods, carts, orders, reqs, last, shops, reviews,
               authVars>>
  /\ LET answer(status, found, list) ==
           shopResp' = [status |-> status, path |-> path, now |-> now,
                        limit |-> limit, shops |-> found, list |-> list,
                        open |-> {s \in found :
                                    IsCurrentlyOpen(shops[s], now)}]
     IN IF FirstMatch(path) = "/:id"
        THEN IF ~IsObjectId(path) THEN answer("invalidId", {}, <<>>)
             ELSE IF path \notin ShopIds THEN answer("notfound", {}, <<>>)
             ELSE IF ~shops[path].exists \/ ~shops[path].isActive
             THEN answer("notfound", {}, <<>>)
             ELSE answer("ok", {path}, <<path>>)
        ELSE \E kept \in TrendingTop(now, limit) :
               \E list \in SortedLists(kept, now) : answer("ok", kept, list)

(* ---------------------------------------------------------------------- *)
(* Shops: DELETE /delete/:id                                               *)
(* ---------------------------------------------------------------------- *)
NonTerminal == {"pending", "confirmed", "preparing", "out_for_delivery"}

\* Order.countDocuments({ shopId: id, status: { $in: [...] } })
PendingOrders(s) ==
  Cardinality({i \in 1..Len(orders) :
                 orders[i].shopId = s /\ orders[i].status \in NonTerminal})

\* ?permanent=..: absent, or present with any value (a string is truthy)
PermanentArgs == BOOLEAN

RequestShopDelete(r, actor, path, permanent) ==
  /\ Free(r)
  /\ issued' = issued + 1
  /\ Arrived(r, [IdleReq EXCEPT !.op = "deleteShop", !.user = actor.id,
                                !.isAdmin = actor.isAdmin, !.shop = path,
                                !.permanent = permanent, !.pc = "find"],
             ~IsObjectId(path), "invalidId")
  /\ UNCHANGED <<foods, carts, orders>>

\* Food.deleteMany({ shopId: id }): the documents whose field shopId is id
FoodsOfShopId(s) ==
  {f \in FoodIds : "shopId" \in DOMAIN foods[f] /\ foods[f].shopId = s}

ShopDelete(r) ==
  LET q == reqs[r]
      s == q.shop
  IN
  /\ q.op = "deleteShop"
  /\ UNCHANGED <<carts, orders, issued, shopResp, authVars>>
  /\ CASE q.pc = "find" ->
            /\ UNCHANGED <<foods, shops, reviews>>
            /\ IF s \notin ShopIds THEN Finish(r, "notfound")
               ELSE IF ~shops[s].exists THEN Finish(r, "notfound")
               ELSE IF shops[s].owner # q.user /\ ~q.isAdmin
               THEN Finish(r, "forbidden")
               ELSE Continue(r, [q EXCEPT !.pc = "count"])
       [] q.pc = "count" ->
            /\ UNCHANGED <<foods, shops, reviews>>
            /\ IF PendingOrders(s) > 0 THEN Finish(r, "invalidState")
               ELSE IF q.permanent /\ q.isAdmin
               THEN Continue(r, [q EXCEPT !.pc = "deleteShop"])
               ELSE Continue(r, [q EXCEPT !.pc = "deactivate"])
       [] q.pc = "deactivate" ->
            /\ shops' = [shops EXCEPT
                           ![s].isActive = IF shops[s].exists THEN FALSE ELSE @]
            /\ UNCHANGED <<foods, reviews>>
            /\ Finish(r, "ok")
       [] q.pc = "deleteShop" ->
            /\ shops' = [shops EXCEPT ![s].exists = FALSE]
            /\ UNCHANGED <<foods, reviews>>
            /\ Continue(r, [q EXCEPT !.pc = "deleteFoods"])
       [] q.pc = "deleteFoods" ->
            /\ foods' = [f \in FoodIds |->
                           IF f \in FoodsOfShopId(s)
                           THEN [foods[f] EXCEPT !.exists = FALSE]
                           ELSE foods[f]]
            /\ UNCHANGED <<shops, reviews>>
            /\ Continue(r, [q EXCEPT !.pc = "deleteReviews"])
       [] q.pc = "deleteReviews" ->
            /\ reviews' = [reviews EXCEPT ![s] = 0]
            /\ UNCHANGED <<foods, shops>>
            /\ Finish(r, "ok")

(* ---------------------------------------------------------------------- *)
(* Shops: GET /recommendations/:userId                                     *)
(* ---------------------------------------------------------------------- *)
OrderHistoryLimit == 50
TopPreferences == 5
RecommendDistance == 10000
RecommendRating == 40

Range(l) == {l[i] : i \in 1..Len(l)}

\* Array.prototype.slice(0, k)
Slice(l, k) == SubSeq(l, 1, IF k < Len(l) THEN k ELSE Len(l))

\* the documents Order.find({ userId, status: 'delivered' }) matches
DeliveredOf(u) ==
  {i \in 1..Len(orders) :
     orders[i].userId = u /\ orders[i].status = "delivered"}

\* a sort by createdAt ascending
OldestFirst(idx) ==
  LET ranked == {<<Cardinality({j \in idx : orders[j].createdAt
                                              < orders[i].createdAt}), i>> :
                   i \in idx}
  IN [k \in 1..Cardinality(idx) |-> (CHOOSE p \in ranked : p[1] = k - 1)[2]]

\* .sort({ createdAt: -1 }): the documents from the newest to the oldest,
\* each at the position that counts the documents newer than it (the
\* histories below hold no two orders of one instant)
NewestFirst(idx) ==
  LET ranked == {<<Cardinality({j \in idx : orders[j].createdAt
                                              > orders[i].createdAt}), i>> :
                   i \in idx}
  IN [k \in 1..Cardinality(idx) |-> (CHOOSE p \in ranked : p[1] = k - 1)[2]]

\* the query of the handler: the sort is applied before the limit,
\* whatever the order of the calls that build the query
UserOrders(matched) == Slice(NewestFirst(matched), OrderHistoryLimit)

\* the reduce over userOrders: the tags of each order's populated shop,
\* pushed in the order of the orders; a shop that is gone populates to null
RECURSIVE Pushed(_, _)
Pushed(found, field) ==
  IF found = <<>> THEN <<>>
  ELSE LET shop == shops[orders[found[1]].shopId]
       IN (IF shop.exists THEN shop[field] ELSE <<>>)
            \o Pushed(Tail(found), field)

\* [...new Set(l)]: the distinct values in the order of their first
\* occurrence
Distinct(l) ==
  LET first == {i \in 1..Len(l) : \A j \in 1..(i - 1) : l[j] # l[i]}
  IN [k \in 1..Cardinality(first) |->
        l[CHOOSE i \in first : Cardinality({j \in first : j < i}) = k - 1]]

TopOf(found, field) == Slice(Distinct(Pushed(found, field)), TopPreferences)

\* $geoNear with its query
RecommendNear ==
  {s \in ShopIds :
     /\ shops[s].exists
     /\ shops[s].distance <= RecommendDistance
     /\ shops[s].isActive /\ shops[s].isVerified /\ shops[s].online
     /\ shops[s].deliveryAvailable}

\* $addFields matchScore
MatchScore(s, topCuisines, topCategories) ==
  Cardinality(Range(shops[s].cuisine) \cap Range(topCuisines))
    + Cardinality(Range(shops[s].menuCategory) \cap Range(topCategories))
    + (IF shops[s].rating.average >= RecommendRating THEN 2 ELSE 0)
    + (IF shops[s].isFeatured THEN 1 ELSE 0)

\* $sort { matchScore: -1, 'rating.average': -1, distance: 1 }
RecommendedBefore(a, b, tc, tk) ==
  LET ma == MatchScore(a, tc, tk)
      mb == MatchScore(b, tc, tk)
      ra == shops[a].rating.average
      rb == shops[b].rating.average
  IN \/ ma > mb
     \/ ma = mb /\ ra > rb
     \/ ma = mb /\ ra = rb /\ shops[a].distance < shops[b].distance

\* the lists the $sort and the $limit can leave
Recommended(tc, tk, limit) ==
  {l \in UNION {[1..n -> RecommendNear] : n \in 0..Cardinality(RecommendNear)} :
     /\ Len(l) = IF limit < Cardinality(RecommendNear) THEN limit
                 ELSE Cardinality(RecommendNear)
     /\ \A i, j \in 1..Len(l) : i # j => l[i] # l[j]
     /\ \A i, j \in 1..Len(l) : i < j => ~RecommendedBefore(l[j], l[i], tc, tk)
     /\ \A b \in RecommendNear \ Range(l) :
          \A i \in 1..Len(l) : ~RecommendedBefore(b, l[i], tc, tk)}

CoordArgs == {"given", "missing"}

\* GET /api/shops/recommendations/<u>?latitude=..&longitude=..&limit=..
GetRecommendations(u, coords, limit) ==
  /\ issued < MaxRequests
  /\ issued' = issued + 1
  /\ UNCHANGED <<foods, carts, orders, reqs, last, shops, reviews,
               authVars>>
  /\ LET answer(status, cuisines, categories, list) ==
           shopResp' = [status |-> status, path |-> "recommendations",
                        now |-> 0, limit |-> limit, shops |-> Range(list),
                        list |-> list, user |-> u,
                        topCuisines |-> cuisines, topCategories |-> categories,
                        matchScore |-> [s \in Range(list) |->
                                         MatchScore(s, cuisines, categories)]]
     IN IF coords = "missing" THEN answer("badRequest", <<>>, <<>>, <<>>)
        ELSE \E matched \in {DeliveredOf(u)} :
             \E found \in {UserOrders(matched)} :
             \E tc \in {TopOf(found, "cuisine")},
                tk \in {TopOf(found, "menuCategory")} :
             \E list \in Recommended(tc, tk, limit) :
               answer("ok", tc, tk, list)

(* ---------------------------------------------------------------------- *)
(* Auth: OTP registration and login, refresh tokens, logout                *)
(* ---------------------------------------------------------------------- *)
Second == 1000
OtpLifetime == 5 * 60 * 1000
AccessLifetime == 15 * 60
RefreshLifetime == 7 * 24 * 60 * 60

\* the codes Math.floor(100000 + Math.random() * 900000) ranges over: its
\* least and its greatest value
OtpCodes == {100000, 999999}

\* req.body.otp: absent, or a code
OtpArgs == OtpCodes \cup {0}

\* req.body.password: too short for validatePassword, or long enough
PasswordArgs == {"abc", "secret1"}

\* req.body.email: an address, or a string validateEmail refuses
EmailArgs == Emails \cup {"nomail"}

validateEmail(email) == email \in Emails

validatePassword(password) == password = "secret1"

\* jwt.sign(payload, secret, { expiresIn }): the token is a function of the
\* payload and of iat, the time of signing in whole seconds
JwtSign(kind, id, now) == [kind |-> kind, id |-> id, iat |-> now \div Second]

\* jwt.verify(token, secret): signed with the secret of its kind and not
\* expired
JwtVerify(token, kind, lifetime, now) ==
  /\ token.kind = kind
  /\ now \div Second < token.iat + lifetime

\* generateTokens(user): the refresh token replaces the stored one
GenerateRefresh(id) == JwtSign("refresh", id, clock)
GenerateAccess(id) == JwtSign("access", id, clock)

\* a response of the auth routes that carries no token
AuthAnswer(op, resp) ==
  /\ authResp' = [op |-> op, resp |-> resp]
  /\ UNCHANGED handedOut

\* generateTokens(user) and the response that carries the two tokens
AuthTokens(op, id) ==
  /\ refreshTokenStore' = [refreshTokenStore EXCEPT ![id] = GenerateRefresh(id)]
  /\ authResp' = [op |-> op, resp |-> "ok"]
  /\ handedOut' = handedOut \cup {GenerateRefresh(id), GenerateAccess(id)}

OtpRefusedWhileStored(email, otp) ==
  \/ otpStore[email] = NoOtp
  \/ otpStore[email].otp # otp

\* storedOtp is missing, differs from the code given, or has expired
OtpRefused(email, otp) ==
  \/ otpStore[email] = NoOtp
  \/ otpStore[email].otp # otp
  \/ otpStore[email].expiresAt < clock

\* Date.now() advances to one of the instants
Tick(instants) ==
  /\ \E t \in instants : t > clock /\ clock' = t
  /\ UNCHANGED <<foods, carts, orders, reqs, last, issued, shopVars, userDocs,
                 otpStore, refreshTokenStore, authReqs, authResp, handedOut>>

\* POST /register/send-otp, POST /login/send-otp and POST /login/resend-otp:
\* the code is stored before the mail is sent; delivered tells whether
\* sendOTP resolved
SendOtp(op, email, code, delivered) ==
  /\ issued < MaxAuthOps
  /\ issued' = issued + 1
  /\ UNCHANGED <<foods, carts, orders, reqs, last, shopVars, userDocs,
                 refreshTokenStore, clock, authReqs>>
  /\ LET registered == userDocs[ToLowerCase(email)].exists
         refused ==
           IF ~validateEmail(email) THEN "validation"
           ELSE IF op = "registerSendOtp" /\ registered THEN "exists"
           ELSE IF op # "registerSendOtp" /\ ~registered THEN "notfound"
           ELSE IF op # "registerSendOtp"
                   /\ userDocs[ToLowerCase(email)].isAdmin THEN "adminLogin"
           ELSE "no"
     IN IF refused # "no"
        THEN otpStore' = otpStore /\ AuthAnswer(op, refused)
        ELSE /\ otpStore' = [otpStore EXCEPT
                               ![email] = [otp |-> code,
                                           expiresAt |-> clock + OtpLifetime]]
             /\ AuthAnswer(op, IF delivered THEN "ok" ELSE "internal")

\* a request that waits at an await takes the first free slot
AuthFree(r) ==
  /\ authReqs[r].op = "none"
  /\ \A r2 \in Slots : r2 < r => authReqs[r2].op # "none"
  /\ issued < MaxAuthOps

\* POST /register/verify up to await bcrypt.hash: the code is compared
\* before the user is created
RequestRegisterVerify(r, email, password, otp) ==
  /\ AuthFree(r)
  /\ issued' = issued + 1
  /\ UNCHANGED <<foods, carts, orders, reqs, last, shopVars, userDocs,
                 otpStore, refreshTokenStore, clock>>
  /\ LET refused ==
           IF otp = 0 THEN "validation"
           ELSE IF ~validateEmail(email) THEN "validation"
           ELSE IF ~validatePassword(password) THEN "validation"
           ELSE IF OtpRefused(email, otp) THEN "badOtp"
           ELSE "no"
     IN IF refused # "no"
        THEN authReqs' = authReqs /\ AuthAnswer("registerVerify", refused)
        ELSE /\ authReqs' = [authReqs EXCEPT
                               ![r] = [IdleAuthReq EXCEPT
                                         !.op = "registerVerify",
                                         !.email = email,
                                         !.password = password]]
             /\ authResp' = NoAuthResponse
             /\ UNCHANGED handedOut

\* POST /register/verify from User.create on: the unique index on email
\* rejects a second user; the code is deleted after the user is created
RegisterVerify(r) ==
  LET q == authReqs[r]
      id == ToLowerCase(q.email)
  IN
  /\ q.op = "registerVerify"
  /\ authReqs' = [authReqs EXCEPT ![r] = IdleAuthReq]
  /\ UNCHANGED <<foods, carts, orders, reqs, last, issued, shopVars, clock>>
  /\ IF userDocs[id].exists
     THEN /\ UNCHANGED <<userDocs, otpStore, refreshTokenStore>>
          /\ AuthAnswer("registerVerify", "internal")
     ELSE /\ userDocs' = [userDocs EXCEPT ![id] = NewUser(q.password)]
          /\ otpStore' = [otpStore EXCEPT ![q.email] = NoOtp]
          /\ AuthTokens("registerVerify", id)

\* POST /login/verify: nothing is awaited between the comparison of the
\* code and its deletion
LoginVerify(email, password, otp) ==
  /\ issued < MaxAuthOps
  /\ issued' = issued + 1
  /\ UNCHANGED <<foods, carts, orders, reqs, last, shopVars, userDocs, clock,
                 authReqs>>
  /\ LET id == ToLowerCase(email)
         refused ==
           IF otp = 0 THEN "validation"
           ELSE IF email \notin Emails \/ ~userDocs[id].exists
           THEN "credentials"
           ELSE IF ~BcryptCompare(password, userDocs[id].password)
           THEN "credentials"
           ELSE IF userDocs[id].isAdmin THEN "adminLogin"
           ELSE IF OtpRefused(email, otp) THEN "badOtp"
           ELSE "no"
     IN IF refused # "no"
        THEN /\ UNCHANGED <<otpStore, refreshTokenStore>>
             /\ AuthAnswer("loginVerify", refused)
        ELSE /\ otpStore' = [otpStore EXCEPT ![email] = NoOtp]
             /\ AuthTokens("loginVerify", id)

\* req.body.refreshToken: a token a response has carried, or a string that
\* is not one
RefreshArgs == {t \in handedOut : t.kind = "refresh"} \cup {NoToken}

\* POST /refresh-token up to await User.findById: the token is verified and
\* compared with the stored one
RequestRefresh(r, token) ==
  /\ AuthFree(r)
  /\ issued' = issued + 1
  /\ UNCHANGED <<foods, carts, orders, reqs, last, shopVars, userDocs,
                 otpStore, refreshTokenStore, clock>>
  /\ LET refused ==
           IF token = NoToken THEN "unauthorized"
           ELSE IF ~JwtVerify(token, "refresh", RefreshLifetime, clock)
           THEN "unauthorized"
           ELSE IF refreshTokenStore[token.id] = NoToken
                   \/ refreshTokenStore[token.id] # token
           THEN "unauthorized"
           ELSE "no"
     IN IF refused # "no"
        THEN authReqs' = authReqs /\ AuthAnswer("refresh", refused)
        ELSE /\ authReqs' = [authReqs EXCEPT
                               ![r] = [IdleAuthReq EXCEPT !.op = "refresh",
                                                          !.token = token]]
             /\ authResp' = NoAuthResponse
             /\ UNCHANGED handedOut

\* POST /refresh-token from generateTokens on
Refresh(r) ==
  LET q == authReqs[r]
      id == q.token.id
  IN
  /\ q.op = "refresh"
  /\ authReqs' = [authReqs EXCEPT ![r] = IdleAuthReq]
  /\ UNCHANGED <<foods, carts, orders, reqs, last, issued, shopVars, userDocs,
                 otpStore, clock>>
  /\ IF ~userDocs[id].exists
     THEN /\ UNCHANGED refreshTokenStore
          /\ AuthAnswer("refresh", "notfound")
     ELSE AuthTokens("refresh", id)

\* the Authorization header: an access token a response has carried
AccessArgs == {t \in handedOut : t.kind = "access"}

\* POST /logout and POST /logout-all behind verifyAccessToken
Logout(op, token) ==
  /\ issued < MaxAuthOps
  /\ issued' = issued + 1
  /\ UNCHANGED <<foods, carts, orders, reqs, last, shopVars, userDocs,
                 otpStore, clock, authReqs>>
  /\ IF ~JwtVerify(token, "access", AccessLifetime, clock)
     THEN /\ UNCHANGED refreshTokenStore
          /\ AuthAnswer(op, "unauthorized")
     ELSE /\ refreshTokenStore' = [refreshTokenStore EXCEPT ![token.id] = NoToken]
          /\ AuthAnswer(op, "ok")

(* ---------------------------------------------------------------------- *)
(* Specifications                                                          *)
(* ---------------------------------------------------------------------- *)
Arrive ==
  /\ UNCHANGED <<shopVars, authVars>>
  /\ \E r \in Slots, u \in Users :
       \/ \E f \in FoodArgs, s \in ShopArgs, n \in AddQtyArgs :
            RequestAdd(r, u, f, s, n)
       \/ \E i \in IdxArgs, n \in QtyArgs : RequestUpdate(r, u, i, n)
       \/ \E i \in IdxArgs : RequestRemove(r, u, i)
       \/ RequestClear(r, u)
       \/ \E pay \in PayArgs, c \in ContactArgs : RequestCheckout(r, u, pay, c)

Catalog ==
  /\ UNCHANGED <<shopVars, authVars>>
  /\ \E f \in FoodIds :
       \/ \E p \in Prices : FoodUpdatePrice(f, p)
      \/ \E n \in {FoodName(f), "special"} : FoodUpdateName(f, n)
       \/ FoodToggleStock(f)
       \/ FoodDelete(f)

\* a clock that has advanced by a millisecond at each order, and a fixed
\* random suffix: the order ids the cart claims do not depend on
SteadyClock == {Epoch + Len(orders)}

Step ==
  /\ UNCHANGED <<shopVars, authVars>>
  /\ \E r \in Slots :
       \/ AddItem(r)
       \/ UpdateItem(r)
       \/ RemoveItem(r)
       \/ ClearCart(r)
       \/ Checkout(r, SteadyClock, {7})

\* requests overlap at their awaits
Next == Arrive \/ Catalog \/ Step

Spec == Init /\ [][Next]_vars

\* one request at a time: a request arrives only when none is in flight
SeqNext == (~InFlight /\ (Arrive \/ Catalog)) \/ Step

SeqSpec == Init /\ [][SeqNext]_vars

\* POST /add requests overlap with each other at their awaits; every other
\* request is served alone
OnlyAddsInFlight == \A r \in Slots : reqs[r].pc # "idle" => reqs[r].op = "add"

ArriveAdd ==
  /\ UNCHANGED <<shopVars, authVars>>
  /\ \E r \in Slots, u \in Users, f \in FoodArgs, s \in ShopArgs,
        n \in AddQtyArgs :
       RequestAdd(r, u, f, s, n)

AddRaceNext ==
  \/ ~InFlight /\ (Arrive \/ Catalog)
  \/ InFlight /\ OnlyAddsInFlight /\ (ArriveAdd \/ Catalog)
  \/ Step

AddRaceSpec == Init /\ [][AddRaceNext]_vars

\* await order.save() / await cart.save() rejects (the database is
\* unreachable or the write fails): control passes to the catch block, which
\* answers 500
SaveRejected(r) ==
  /\ reqs[r].pc \in {"save", "saveOrder"}
  /\ Finish(r, "internal")
  /\ UNCHANGED <<foods, carts, orders, issued, shopVars, authVars>>

\* one request at a time, over a store whose writes may fail
FaultNext == SeqNext \/ \E r \in Slots : SaveRejected(r)

FaultSpec == Init /\ [][FaultNext]_vars

\* ratings arriving one after another at a shop never rated and at a shop
\* that ten ratings of 4 have left at (4.0, 10)
RatedBefore(s) == IF s = "s1" THEN 0 ELSE 10

RatingInit ==
  /\ foods = [f \in FoodIds |->
               [exists |-> TRUE, name |-> FoodName(f), price |-> BasePrice(f),
                instock |-> TRUE, shopid |-> FoodShop(f)]]
  /\ carts = <<>>
  /\ orders = <<>>
  /\ reqs = [r \in Slots |-> IdleReq]
  /\ last = NoResponse
  /\ issued = 0
  /\ shops = [s \in ShopIds |->
               [NewShop(s) EXCEPT
                  !.rating = IF RatedBefore(s) = 0 THEN @
                             ELSE [average |-> 40, count |-> RatedBefore(s)]]]
  /\ shopResp = NoShopResponse
  /\ reviews = StoredReviews
  /\ AuthInit

RatingNext == \E s \in ShopIds, r \in RatingArgs : ShopUpdateRating(s, r)

RatingSpec == RatingInit /\ [][RatingNext]_vars

\* the shop requests, served one at a time
ShopNext ==
  \E s \in ShopIds :
    \/ \E r \in RatingArgs : ShopUpdateRating(s, r)
    \/ \E a \in Actors, b \in ShopBodies : ShopUpdate(s, a, b)
    \/ \E a \in Actors, online \in BOOLEAN : ShopSetOnline(s, a, online)
    \/ \E a \in Actors, v \in BOOLEAN : ShopVerify(s, a, v)

ShopSpec == RatingInit /\ [][ShopNext]_vars

\* an order of shop s placed at time at, now in status st
PastOrder(s, at, st, n) ==
  LET f == CHOOSE x \in FoodIds : FoodShop(x) = s
      cart == [NewCart("u2") EXCEPT !.items = <<InitLine(f)>>,
                                    !.totalAmount = BasePrice(f)]
  IN [OrderPreSave(BuildOrder("u2", 0, cart, <<FoodName(f)>>, "cod", at),
                   at, n)
        EXCEPT !.status = st]

\* n1 orders of s1 and n2 of s2, delivered a millisecond after Epoch
DeliveredOrders(n1, n2) ==
  [i \in 1..(n1 + n2) |->
     PastOrder(IF i <= n1 THEN "s1" ELSE "s2", Epoch + 1, "delivered", i)]

\* an order of s1 delivered at Epoch and one still confirmed
OtherOrders ==
  <<PastOrder("s1", Epoch, "delivered", 900),
    PastOrder("s1", Epoch + 1, "confirmed", 901)>>

\* shops of every rating, featured or not, verified or not, near or far,
\* and the orders of the past days
TrendInit ==
  /\ foods = [f \in FoodIds |->
               [exists |-> TRUE, name |-> FoodName(f), price |-> BasePrice(f),
                instock |-> TRUE, shopid |-> FoodShop(f)]]
  /\ carts = <<>>
  /\ reqs = [r \in Slots |-> IdleReq]
  /\ last = NoResponse
  /\ issued = 0
  /\ shopResp = NoShopResponse
  /\ reviews = StoredReviews
  /\ AuthInit
  /\ \E a1 \in {35, 40}, a2 \in {35, 40}, featured \in BOOLEAN,
        verified \in BOOLEAN, d \in {3000, 20000} :
       shops = [s \in ShopIds |->
                  IF s = "s1"
                  THEN [NewShop(s) EXCEPT
                          !.rating = [average |-> a1, count |-> 10],
                          !.isVerified = TRUE, !.isFeatured = featured]
                  ELSE [NewShop(s) EXCEPT
                          !.rating = [average |-> a2, count |-> 10],
                          !.isVerified = verified, !.distance = d]]
  /\ \E n1 \in 0..MaxWeekly, n2 \in {0, MaxWeekly}, other \in BOOLEAN :
       orders = DeliveredOrders(n1, n2) \o (IF other THEN OtherOrders ELSE <<>>)

TrendNext ==
  \E path \in ShopPaths, now \in {Epoch + Week, Epoch + Week + 1},
     limit \in LimitArgs :
    GetShopPath(path, now, limit)

TrendSpec == TrendInit /\ [][TrendNext]_vars

MaxOlder == 2

\* k delivered orders of user u at shop s, placed one millisecond apart
\* from the instant after
OrdersAt(u, s, after, k) ==
  [i \in 1..k |->
     [PastOrder(s, after + i, "delivered", i) EXCEPT !.userId = u]]

\* the cuisines and menu categories the two shops can carry
TagChoices(s) ==
  IF s = "s1"
  THEN {[cuisine |-> <<"Indian", "Chinese", "Italian">>,
         menuCategory |-> <<"Pizza", "Pasta">>],
        [cuisine |-> <<"Indian">>, menuCategory |-> <<>>],
        [cuisine |-> <<"Indian", "Chinese", "Italian", "Thai", "Mexican",
                       "Punjabi">>,
         menuCategory |-> <<"Pizza", "Pasta">>]}
  ELSE {[cuisine |-> <<"Thai", "Mexican", "Punjabi">>,
         menuCategory |-> <<"Biryani", "Pizza">>],
        [cuisine |-> <<"Thai", "Indian">>,
         menuCategory |-> <<"Biryani", "Pizza">>]}

\* a user whose older orders went to one shop and whose newer orders went
\* to a shop, up to as many newer orders as the query keeps; an order of
\* theirs still on its way and another user's order
RecommendInit ==
  /\ foods = [f \in FoodIds |->
               [exists |-> TRUE, name |-> FoodName(f), price |-> BasePrice(f),
                instock |-> TRUE, shopid |-> FoodShop(f)]]
  /\ carts = <<>>
  /\ reqs = [r \in Slots |-> IdleReq]
  /\ last = NoResponse
  /\ issued = 0
  /\ shopResp = NoShopResponse
  /\ reviews = StoredReviews
  /\ AuthInit
  /\ \E t1 \in TagChoices("s1"), t2 \in TagChoices("s2"),
        a \in {35, 40}, featured \in BOOLEAN, gone \in BOOLEAN :
       shops = [s \in ShopIds |->
                  IF s = "s1"
                  THEN [NewShop(s) EXCEPT
                          !.cuisine = t1.cuisine,
                          !.menuCategory = t1.menuCategory,
                          !.rating = [average |-> a, count |-> 10],
                          !.isVerified = TRUE, !.exists = ~gone]
                  ELSE [NewShop(s) EXCEPT
                          !.cuisine = t2.cuisine,
                          !.menuCategory = t2.menuCategory,
                          !.rating = [average |-> 40, count |-> 10],
                          !.isVerified = TRUE, !.isFeatured = featured]]
  /\ \E older \in ShopIds, newer \in ShopIds, n1 \in 0..MaxOlder,
        n2 \in {0, 1, OrderHistoryLimit} :
       orders = OrdersAt("u1", older, Epoch, n1)
                  \o OrdersAt("u1", newer, Epoch + n1, n2)
                  \o <<[PastOrder("s1", Epoch + n1 + n2 + 1, "confirmed", 901)
                         EXCEPT !.userId = "u1"]>>
                  \o OrdersAt("u2", "s1", Epoch, 1)

RecommendNext ==
  \E u \in Users, coords \in CoordArgs, limit \in LimitArgs :
    GetRecommendations(u, coords, limit)

RecommendSpec == RecommendInit /\ [][RecommendNext]_vars

\* longitudes and latitudes at and beyond the ends of the ranges
Longitudes == {-181, -180, 0, 180, 181}
Latitudes == {-91, -90, 0, 90, 91}

\* points that leave at most one of the two ranges
GeoPoints ==
  {<<lon, 0>> : lon \in Longitudes} \cup {<<0, lat>> : lat \in Latitudes}

\* bodies that carry a location: alone, and with the fields a creation
\* needs
GeoBodies ==
  {[location |-> p] : p \in GeoPoints}
    \cup {[name |-> "diner", foodLicence |-> "FL-2", phone |-> "9000000002",
           address |-> "Park Street", location |-> p] : p \in GeoPoints}

\* one shop stored, and an _id no document has yet
OneShopInit ==
  /\ foods = [f \in FoodIds |->
               [exists |-> TRUE, name |-> FoodName(f), price |-> BasePrice(f),
                instock |-> TRUE, shopid |-> FoodShop(f)]]
  /\ carts = <<>>
  /\ orders = <<>>
  /\ reqs = [r \in Slots |-> IdleReq]
  /\ last = NoResponse
  /\ issued = 0
  /\ shopResp = NoShopResponse
  /\ reviews = StoredReviews
  /\ AuthInit
  /\ shops = [s \in ShopIds |->
                IF s = "s1" THEN NewShop(s)
                ELSE [NewShop(s) EXCEPT !.exists = FALSE]]

GeoNext ==
  \E s \in ShopIds, a \in Actors, b \in GeoBodies :
    \/ ShopCreate(s, a, b)
    \/ ShopUpdate(s, a, b)

GeoSpec == OneShopInit /\ [][GeoNext]_vars

\* bodies that ask for the verified flag, alone and with other fields
VerifyBodies ==
  {[isVerified |-> TRUE],
   [phone |-> "9000000003"],
   [name |-> "bistro", isVerified |-> TRUE],
   [name |-> "diner", foodLicence |-> "FL-2", phone |-> "9000000002",
    address |-> "Park Street", location |-> <<0, 0>>, isVerified |-> TRUE]}

VerifyNext ==
  \E s \in ShopIds, a \in Actors :
    \/ \E b \in VerifyBodies : ShopCreate(s, a, b)
    \/ \E b \in VerifyBodies : ShopUpdate(s, a, b)
    \/ \E v \in BOOLEAN : ShopVerify(s, a, v)

VerifySpec == OneShopInit /\ [][VerifyNext]_vars

\* the OTP routes, with a clock that reaches and passes the expiry of a code
OtpSendOps == {"registerSendOtp", "loginSendOtp", "loginResendOtp"}

OtpNext ==
  \/ Tick({1, OtpLifetime, OtpLifetime + 1})
  \/ \E op \in OtpSendOps, e \in EmailArgs, c \in OtpCodes, d \in BOOLEAN :
       SendOtp(op, e, c, d)
  \/ \E r \in Slots, e \in EmailArgs, p \in PasswordArgs, o \in OtpArgs :
       RequestRegisterVerify(r, e, p, o)
  \/ \E r \in Slots : RegisterVerify(r)
  \/ \E e \in EmailArgs, p \in PasswordArgs, o \in OtpArgs :
       LoginVerify(e, p, o)

OtpSpec == OneShopInit /\ [][OtpNext]_vars

\* the registered user has logged in at instant 0 and holds the two tokens
SignedInInit ==
  /\ foods = [f \in FoodIds |->
               [exists |-> TRUE, name |-> FoodName(f), price |-> BasePrice(f),
                instock |-> TRUE, shopid |-> FoodShop(f)]]
  /\ carts = <<>>
  /\ orders = <<>>
  /\ reqs = [r \in Slots |-> IdleReq]
  /\ last = NoResponse
  /\ issued = 0
  /\ shopResp = NoShopResponse
  /\ reviews = StoredReviews
  /\ shops = [s \in ShopIds |-> NewShop(s)]
  /\ userDocs = [a \in Addresses |->
                   IF a = "a@x.io" THEN NewUser("secret1") ELSE NoUser]
  /\ otpStore = [e \in Emails |-> NoOtp]
  /\ refreshTokenStore =
       [a \in Addresses |->
          IF a = "a@x.io" THEN JwtSign("refresh", a, 0) ELSE NoToken]
  /\ clock = 0
  /\ authReqs = [r \in Slots |-> IdleAuthReq]
  /\ authResp = [op |-> "loginVerify", resp |-> "ok"]
  /\ handedOut = {JwtSign("refresh", "a@x.io", 0),
                  JwtSign("access", "a@x.io", 0)}

\* instants within the second of the login, in the next second, and at the
\* expiry of the access token and of the refresh token
TokenInstants ==
  {500, Second, AccessLifetime * Second, RefreshLifetime * Second}

\* the refresh-token and logout routes, with the OTP login of the
\* registered user
TokenNext ==
  \/ Tick(TokenInstants)
  \/ SendOtp("loginSendOtp", "a@x.io", 100000, TRUE)
  \/ \E o \in OtpArgs : LoginVerify("a@x.io", "secret1", o)
  \/ \E r \in Slots, t \in RefreshArgs : RequestRefresh(r, t)
  \/ \E r \in Slots : Refresh(r)
  \/ \E op \in {"logout", "logoutAll"}, t \in AccessArgs : Logout(op, t)

TokenSpec == SignedInInit /\ [][TokenNext]_vars

\* opening hours of the stored shops
HoursChoices ==
  {[openTime |-> <<"0", "9", ":", "0", "0">>,
    closeTime |-> <<"2", "2", ":", "0", "0">>],
   [openTime |-> <<"1", "0", ":", "3", "0">>,
    closeTime |-> <<"1", "0", ":", "3", "1">>],
   [openTime |-> <<"0", "0", ":", "0", "0">>,
    closeTime |-> <<"2", "3", ":", "5", "9">>]}

\* minutes of the day around the opening and the closing times
ClockMinutes ==
  {0, 539, 540, 541, 630, 631, 632, 1319, 1320, 1321, 1439}

\* the instants of the ninth day of the clock: the first and the last
\* millisecond of those minutes
ClockArgs ==
  {8 * MinutesPerDay * Minute + m * Minute + ms :
     m \in ClockMinutes, ms \in {0, Minute - 1}}

HoursInit ==
  /\ foods = [f \in FoodIds |->
               [exists |-> TRUE, name |-> FoodName(f), price |-> BasePrice(f),
                instock |-> TRUE, shopid |-> FoodShop(f)]]
  /\ carts = <<>>
  /\ orders = <<>>
  /\ reqs = [r \in Slots |-> IdleReq]
  /\ last = NoResponse
  /\ issued = 0
  /\ shopResp = NoShopResponse
  /\ reviews = StoredReviews
  /\ AuthInit
  /\ \E h1 \in HoursChoices, h2 \in HoursChoices, active \in BOOLEAN :
       shops = [s \in ShopIds |->
                  IF s = "s1"
                  THEN [NewShop(s) EXCEPT !.openTime = h1.openTime,
                                          !.closeTime = h1.closeTime]
                  ELSE [NewShop(s) EXCEPT !.openTime = h2.openTime,
                                          !.closeTime = h2.closeTime,
                                          !.isActive = active]]

HoursNext ==
  \E path \in ShopPaths, now \in ClockArgs, limit \in LimitArgs :
    GetShopPath(path, now, limit)

HoursSpec == HoursInit /\ [][HoursNext]_vars

\* checkouts served one at a time, with every reading of the clock and
\* every random suffix
ArriveCheckout ==
  /\ UNCHANGED <<shopVars, authVars>>
  /\ \E r \in Slots, u \in Users, pay \in PayArgs, c \in ContactArgs :
       RequestCheckout(r, u, pay, c)

CheckoutStep ==
  /\ UNCHANGED <<shopVars, authVars>>
  /\ \E r \in Slots : Checkout(r, Timestamps, RandomNums)

OrderIdNext == (~InFlight /\ ArriveCheckout) \/ CheckoutStep

OrderIdSpec == Init /\ [][OrderIdNext]_vars

\* checkouts and shop deletions, overlapping at their awaits
ArriveDelete ==
  /\ UNCHANGED <<shopVars, authVars>>
  /\ \E r \in Slots, a \in Actors, path \in ShopPaths, p \in PermanentArgs :
       RequestShopDelete(r, a, path, p)

DeleteStep ==
  \/ UNCHANGED <<shopVars, authVars>> /\ \E r \in Slots : Checkout(r, SteadyClock, {7})
  \/ \E r \in Slots : ShopDelete(r)

DeleteRaceNext == ArriveCheckout \/ ArriveDelete \/ DeleteStep

DeleteRaceSpec == Init /\ [][DeleteRaceNext]_vars

\* the same requests, served one at a time
DeleteSeqNext ==
  \/ ~InFlight /\ (ArriveCheckout \/ ArriveDelete)
  \/ DeleteStep

DeleteSeqSpec == Init /\ [][DeleteSeqNext]_vars

(* ---------------------------------------------------------------------- *)
(* Properties                                                              *)
(* ---------------------------------------------------------------------- *)
\* request r sends its response in this step
Finishing(r) == reqs[r].pc # "idle" /\ reqs'[r].pc = "idle"

OpenCartsOf(u) ==
  {i \in 1..Len(carts) : carts[i].user = u /\ ~carts[i].isCheckedOut}

C2_MergeKeepsSnapshotPrice ==
  [][/\ \A i \in 1..Len(carts') : \A k \in 1..Len(carts'[i].items) :
          carts'[i].items[k].subtotal =
            carts'[i].items[k].price * carts'[i].items[k].quantity
     /\ \A r \in Slots :
          LET q == reqs[r]
              cid == FindOpenCart(q.user)
              k == IF cid = 0 THEN 0
                   ELSE FindIndex(carts[cid].items, q.food, q.shop, 1)
          IN (/\ q.op = "add" /\ Finishing(r) /\ k > 0
              /\ foods[q.food].exists /\ foods[q.food].instock
              /\ foods[q.food].shopid = q.shop)
             => /\ carts'[cid].items[k].quantity =
                     carts[cid].items[k].quantity + q.qty
                /\ carts'[cid].items[k].subtotal =
                     carts[cid].items[k].price
                       * (carts[cid].items[k].quantity + q.qty)]_vars

\* C3: a second add of a (food, shop) pair merges into the existing line
\* (quantity summed, no new line), and no cart holds a pair twice.
C3_SecondAddMerges ==
  [][/\ \A i \in 1..Len(carts') : \A k, m \in 1..Len(carts'[i].items) :
          (/\ carts'[i].items[k].food = carts'[i].items[m].food
           /\ carts'[i].items[k].shop = carts'[i].items[m].shop) => k = m
     /\ \A r \in Slots :
          LET q == reqs[r]
              cid == FindOpenCart(q.user)
              k == IF cid = 0 THEN 0
                   ELSE FindIndex(carts[cid].items, q.food, q.shop, 1)
          IN (/\ q.op = "add" /\ Finishing(r) /\ k > 0
              /\ foods[q.food].exists /\ foods[q.food].instock
              /\ foods[q.food].shopid = q.shop)
             => /\ Len(carts'[cid].items) = Len(carts[cid].items)
                /\ carts'[cid].items[k].quantity =
                     carts[cid].items[k].quantity + q.qty]_vars

\* the outcome the catalog determines for an add of food f at shop s
AddOutcome(f, s) ==
  IF f \notin FoodIds \/ ~foods[f].exists THEN "notfound"
  ELSE IF foods[f].shopid # s THEN "conflict"
  ELSE IF ~foods[f].instock THEN "unavailable"
  ELSE "ok"

\* C4: an add ends NotFound, Conflict, Unavailable or success as the
\* catalog determines, success puts the line in the user's open cart, and a
\* failing add leaves the carts unchanged.
C4_AddOutcomeFollowsCatalog ==
  [][\A r \in Slots :
       LET q == reqs[r] IN
       (q.op = "add" /\ Finishing(r)) =>
          /\ last'.resp = AddOutcome(q.food, q.shop)
          /\ last'.resp # "ok" => carts' = carts
          /\ last'.resp = "ok" =>
               \E i \in 1..Len(carts') :
                 /\ carts'[i].user = q.user /\ ~carts'[i].isCheckedOut
                 /\ FindIndex(carts'[i].items, q.food, q.shop, 1) > 0]_vars

\* itemIndex names one of the n lines: "0" .. "n-1"
ValidIndex(idx, n) ==
  \/ idx = "0" /\ n >= 1
  \/ idx = "1" /\ n >= 2
  \/ idx = "2" /\ n >= 3

IndexOf(idx) == IF idx = "0" THEN 1 ELSE IF idx = "1" THEN 2 ELSE 3

\* C5: an update (quantity >= 1) ends NotFound with the carts unchanged
\* when the user has no open cart or the index is no position of the cart,
\* negative and non-numeric indexes included; otherwise it sets that line's
\* quantity and subtotal = price x quantity and nothing else.
C5_UpdateOutcome ==
  [][\A r \in Slots :
       LET q == reqs[r]
           cid == FindOpenCart(q.user)
       IN (q.op = "update" /\ Finishing(r)) =>
            IF cid = 0 \/ ~ValidIndex(q.idx, Len(carts[cid].items))
            THEN last'.resp = "notfound" /\ carts' = carts
            ELSE /\ last'.resp = "ok"
                 /\ LET k == IndexOf(q.idx) IN
                    carts'[cid].items =
                      [carts[cid].items EXCEPT
                         ![k].quantity = q.qty,
                         ![k].subtotal = carts[cid].items[k].price * q.qty]]_vars

\* items without the line at 1-based position k
Without(items, k) ==
  [i \in 1..(Len(items) - 1) |-> IF i < k THEN items[i] ELSE items[i + 1]]

\* C6: a remove deletes exactly the line at a position 0..n-1 and keeps the
\* others in order; for any other index it removes nothing; the cart stays
\* persisted and open, empty with total 0 once its only line is removed.
C6_RemoveOutcome ==
  [][\A r \in Slots :
       LET q == reqs[r]
           cid == FindOpenCart(q.user)
       IN (q.op = "remove" /\ Finishing(r) /\ cid # 0) =>
            /\ Len(carts') = Len(carts)
            /\ ~carts'[cid].isCheckedOut
            /\ IF ValidIndex(q.idx, Len(carts[cid].items))
               THEN carts'[cid].items =
                      Without(carts[cid].items, IndexOf(q.idx))
               ELSE carts'[cid].items = carts[cid].items
            /\ carts'[cid].items = <<>> => carts'[cid].totalAmount = 0]_vars

\* the items and total of every cart, the fields a clear may touch
Contents(cs) ==
  [i \in 1..Len(cs) |->
     [items |-> cs[i].items, totalAmount |-> cs[i].totalAmount]]

\* C7: a clear always succeeds; it leaves the user's open cart, if any,
\* open with no items and total 0; on no open cart or an already empty one
\* it changes no cart's items or total, and it never creates a cart.
C7_ClearIdempotent ==
  [][\A r \in Slots :
       LET q == reqs[r]
           cid == FindOpenCart(q.user)
       IN (q.op = "clear" /\ Finishing(r)) =>
            /\ last'.resp = "ok"
            /\ Len(carts') = Len(carts)
            /\ cid # 0 =>
                 /\ carts'[cid].items = <<>>
                 /\ carts'[cid].totalAmount = 0
                 /\ ~carts'[cid].isCheckedOut
                 /\ \A i \in 1..Len(carts) : i # cid => carts'[i] = carts[i]
            /\ (cid = 0 \/ carts[cid].items = <<>>) =>
                 Contents(carts') = Contents(carts)]_vars

\* a clear has succeeded for a user whose open cart had lines once and is
\* empty now
C7_Witness ==
  /\ last.op = "clear" /\ last.resp = "ok"
  /\ \E i \in OpenCartsOf(last.user) :
       carts[i].items = <<>> /\ carts[i].totalAmount = 0 /\ carts[i].v > 0

C9_EmptyCheckoutFails ==
  [][\A r \in Slots :
       LET q == reqs[r]
           cid == FindOpenCart(q.user)
       IN (/\ q.op = "checkout" /\ q.pc = "find" /\ reqs'[r] # q
           /\ (cid = 0 \/ carts[cid].items = <<>>))
          => /\ reqs'[r].pc = "idle"
             /\ last'.op = "checkout" /\ last'.resp = "cartempty"
             /\ orders' = orders
             /\ carts' = carts]_vars

\* a checkout of a user whose open cart is empty was refused as empty
C9_Witness ==
  /\ last.op = "checkout" /\ last.resp = "cartempty"
  /\ \E i \in OpenCartsOf(last.user) : carts[i].items = <<>>

\* C10: every order has deliveryFee 50, taxes = 5% of totalAmount rounded
\* to the nearest integer with halves up, the cart's totalAmount, and
\* grandTotal = totalAmount + deliveryFee + taxes.
C10_OrderTotals ==
  \A i \in 1..Len(orders) :
    LET o == orders[i] IN
    /\ o.deliveryFee = 50
    /\ 20 * o.taxes - 10 <= o.totalAmount
    /\ o.totalAmount < 20 * o.taxes + 10
    /\ o.totalAmount = carts[o.cart].totalAmount
    /\ o.grandTotal = o.totalAmount + o.deliveryFee + o.taxes

\* the order of a cart of total 200: taxes 10, grandTotal 260
C10_Witness ==
  \E i \in 1..Len(orders) :
    /\ orders[i].totalAmount = 200
    /\ orders[i].taxes = 10
    /\ orders[i].grandTotal = 260

\* C11: every order has a payment method of the schema's enum, is completed
\* exactly for card and upi and pending for cod, and carries a payment id
\* for cod, card and upi; a checkout with any other method changes neither
\* the orders nor the carts.
C11_PaymentOutcome ==
  [][/\ \A i \in 1..Len(orders') :
          LET o == orders'[i] IN
          /\ o.paymentMethod \in {"cod", "card", "upi", "wallet"}
          /\ o.paymentStatus = "completed" <=> o.paymentMethod \in {"card", "upi"}
          /\ o.paymentMethod = "cod" => o.paymentStatus = "pending"
          /\ o.paymentMethod \in {"cod", "card", "upi"} => o.hasPaymentId
     /\ \A r \in Slots :
          LET q == reqs[r] IN
          (/\ q.op = "checkout" /\ reqs'[r] # q
           /\ q.pay \notin {"cod", "card", "upi", "wallet"})
          => orders' = orders /\ carts' = carts]_vars

\* a upi order is completed, and a later checkout of another user's filled
\* cart, all of whose foods exist, was refused and left the cart open
C11_Witness ==
  /\ Len(orders) = 1
  /\ orders[1].paymentMethod = "upi" /\ orders[1].paymentStatus = "completed"
  /\ last.op = "checkout" /\ last.resp = "internal"
  /\ last.user # orders[1].userId
  /\ \E i \in OpenCartsOf(last.user) :
       /\ carts[i].items # <<>>
       /\ \A k \in 1..Len(carts[i].items) : foods[carts[i].items[k].food].exists

\* C12: a successful checkout creates exactly one order: one item per cart
\* line with the line's food, quantity, price and subtotal, the shop of the
\* first line, status confirmed; and it marks the cart checked out.
C12_CheckoutCreatesOrder ==
  [][\A r \in Slots :
       LET q == reqs[r] IN
       q.op = "checkout" /\ reqs'[r] # q =>
         /\ q.pc = "find" => orders' = orders /\ carts' = carts
         /\ (q.pc = "saveOrder" /\ reqs'[r].pc = "save") =>
              LET c == carts[q.cid]
                  o == orders'[Len(orders')]
              IN /\ orders' = Append(orders, o)
                 /\ o.userId = q.user
                 /\ o.status = "confirmed"
                 /\ o.shopId = c.items[1].shop
                 /\ Len(o.items) = Len(c.items)
                 /\ \A k \in 1..Len(c.items) :
                      /\ o.items[k].foodId = c.items[k].food
                      /\ o.items[k].quantity = c.items[k].quantity
                      /\ o.items[k].price = c.items[k].price
                      /\ o.items[k].subtotal = c.items[k].subtotal
         /\ (q.pc = "save" /\ last'.resp = "ok") =>
              /\ orders' = orders
              /\ Cardinality({i \in 1..Len(orders) : orders[i].cart = q.cid}) = 1
              /\ carts'[q.cid].isCheckedOut
              /\ ~carts[q.cid].isCheckedOut]_vars

\* a checkout of a cart with lines of two shops succeeded: the order has
\* both lines and the shop of the first
C12_Witness ==
  /\ last.op = "checkout" /\ last.resp = "ok"
  /\ \E i \in 1..Len(orders) :
       /\ Len(orders[i].items) = 2
       /\ orders[i].shopId = FoodShop(orders[i].items[1].foodId)
       /\ orders[i].shopId # FoodShop(orders[i].items[2].foodId)
       /\ carts[orders[i].cart].isCheckedOut

\* C13: at most one order is ever created from a cart, overlapping
\* checkouts of one user included.
C13_OneOrderPerCart ==
  \A i, j \in 1..Len(orders) : i # j => orders[i].cart # orders[j].cart

\* C14: once a cart is checked out its items and its totalAmount never
\* change, whatever request saves it afterwards.
C14_CheckedOutCartFrozen ==
  [][\A i \in 1..Len(carts) :
       carts[i].isCheckedOut =>
         /\ carts'[i].items = carts[i].items
         /\ carts'[i].totalAmount = carts[i].totalAmount]_vars

\* C15: when a checkout has finished, either an order of the cart is stored
\* and the cart is checked out, or no order of it is stored and the cart is
\* open; a checkout that reports a failure has stored no order.
C15_CheckoutAtomic ==
  [][\A r \in Slots :
       LET q == reqs[r]
           c == IF q.cid # 0 THEN q.cid ELSE FindOpenCart(q.user)
           stored == \E i \in 1..Len(orders') : orders'[i].cart = c
       IN (q.op = "checkout" /\ Finishing(r) /\ c # 0) =>
            /\ stored <=> carts'[c].isCheckedOut
            /\ last'.resp # "ok" => ~stored]_vars

\* C16: no two orders have the same orderId, whatever the clock readings
\* and random suffixes, and every orderId is ORD, the digits of a
\* timestamp, and a suffix of exactly three digits.
C16_OrderIdsUnique ==
  /\ \A i, j \in 1..Len(orders) :
       i # j => orders[i].orderId # orders[j].orderId
  /\ \A i \in 1..Len(orders) :
       LET id == orders[i].orderId
           digits == {"0", "1", "2", "3", "4", "5", "6", "7", "8", "9"}
       IN /\ Len(id) >= 7
          /\ SubSeq(id, 1, 3) = <<"O", "R", "D">>
          /\ \A k \in 4..Len(id) : id[k] \in digits
          /\ \E now \in Timestamps, n \in 0..999 :
               /\ SubSeq(id, 4, Len(id) - 3) = NumToString(now)
               /\ SubSeq(id, Len(id) - 2, Len(id)) =
                    <<Digit(n \div 100), Digit((n \div 10) % 10), Digit(n % 10)>>

\* two orders created in the same millisecond, with different suffixes
C16_Witness ==
  /\ Len(orders) = 2
  /\ orders[1].createdAt = orders[2].createdAt
  /\ SubSeq(orders[1].orderId, 1, Len(orders[1].orderId) - 3)
       = SubSeq(orders[2].orderId, 1, Len(orders[2].orderId) - 3)
  /\ orders[1].orderId # orders[2].orderId

\* C17: a stored order never changes, whatever cart request, checkout or
\* catalog change follows, and each of its items carries the quantity,
\* price and subtotal of the cart line it was made from.
C17_OrderIsSnapshot ==
  [][/\ \A i \in 1..Len(orders) :
          Len(orders') >= i /\ orders'[i] = orders[i]
     /\ \A i \in 1..Len(orders') :
          LET o == orders'[i]
              c == carts'[o.cart]
          IN /\ Len(o.items) = Len(c.items)
             /\ \A k \in 1..Len(o.items) :
                  /\ o.items[k].price = c.items[k].price
                  /\ o.items[k].quantity = c.items[k].quantity
                  /\ o.items[k].subtotal = c.items[k].subtotal
                  /\ i > Len(orders) =>
                       o.items[k].foodName = foods[o.items[k].foodId].name]_vars

\* an order whose food has since been renamed, re-priced or deleted, or
\* was re-priced before the checkout, keeps the line's price and its name
C17_Witness ==
  /\ last.op = "checkout" /\ last.resp = "ok"
  /\ \E i \in 1..Len(orders) :
       \E k \in 1..Len(orders[i].items) :
         LET f == foods[orders[i].items[k].foodId] IN
         \/ ~f.exists
         \/ orders[i].items[k].price # f.price
         \/ orders[i].items[k].foodName # f.name

\* C18: a rating r of 1..5 adds one to the count and sets the average to
\* ((oldAverage x oldCount) + r) / (oldCount + 1) rounded to one decimal;
\* the average stays within 0..5 and the counts add up to the number of
\* updates made.
C18_RatingUpdate ==
  [][/\ \A s \in ShopIds :
          LET old == shops[s].rating
              new == shops'[s].rating
          IN new # old =>
               /\ new.count = old.count + 1
               /\ \E r \in 1..5 :
                    LET sum == old.average * old.count + 10 * r IN
                    /\ 2 * (new.average * new.count - sum) <= new.count
                    /\ 2 * (sum - new.average * new.count) <= new.count
     /\ \A s \in ShopIds :
          shops'[s].rating.average >= 0 /\ shops'[s].rating.average <= 50
     /\ shops'["s1"].rating.count + shops'["s2"].rating.count
          = RatedBefore("s1") + RatedBefore("s2") + issued']_vars

\* the shop at (4.0, 10) was rated 5 and is at (4.1, 11); the other has had
\* its first ratings
C18_Witness ==
  /\ shops["s2"].rating = [average |-> 41, count |-> 11]
  /\ shops["s1"].rating.count = 3
  /\ issued = 4

\* C19: only the rating update changes a shop's rating aggregate.
C19_RatingOnlyByReview ==
  [][\A s \in ShopIds :
       shops'[s].rating # shops[s].rating => last'.op = "updateRating"]_vars

\* a shop's own delivered orders of the trailing seven days
OwnWeeklyOrders(s, now) ==
  Cardinality({i \in 1..Len(orders) :
                 /\ orders[i].shopId = s
                 /\ orders[i].status = "delivered"
                 /\ orders[i].createdAt >= now - 604800000})

\* C20: a trending request is answered with the shops that are active,
\* verified, online and within 15 km and have an average of 4.0 or more,
\* five or more own delivered orders of the last seven days, or the
\* featured flag (when the limit keeps them all).
C20_TrendingInclusion ==
  shopResp.path = "trending" =>
    /\ shopResp.status = "ok"
    /\ shopResp.limit >= Cardinality(ShopIds) =>
         \A s \in ShopIds :
           (/\ shops[s].isActive /\ shops[s].isVerified /\ shops[s].online
            /\ shops[s].distance <= 15000)
           => (s \in shopResp.shops <=>
                 \/ shops[s].rating.average >= 40
                 \/ OwnWeeklyOrders(s, shopResp.now) >= 5
                 \/ shops[s].isFeatured)

\* the score the trending order is stated on, in tenths: twice the average,
\* the shop's own delivered orders of the trailing seven days, 5 when
\* featured, 3 when within 5 km
OwnTrendingScore(s, now) ==
  2 * shops[s].rating.average + 10 * OwnWeeklyOrders(s, now)
    + (IF shops[s].isFeatured THEN 50 ELSE 0)
    + (IF shops[s].distance <= 5000 THEN 30 ELSE 0)

\* C21: a trending request is answered with its shops in order of that
\* score, highest first, and shops of equal score in order of their average,
\* highest first.
C21_TrendingOrder ==
  shopResp.path = "trending" =>
    /\ shopResp.status = "ok"
    /\ \A i, j \in 1..Len(shopResp.list) :
         i < j =>
           LET a == shopResp.list[i]
               b == shopResp.list[j]
           IN \/ OwnTrendingScore(a, shopResp.now)
                   > OwnTrendingScore(b, shopResp.now)
              \/ /\ OwnTrendingScore(a, shopResp.now)
                      = OwnTrendingScore(b, shopResp.now)
                 /\ shops[a].rating.average >= shops[b].rating.average

\* the user's last 50 delivered orders
LastDelivered(u) ==
  {i \in 1..Len(orders) :
     /\ orders[i].userId = u /\ orders[i].status = "delivered"
     /\ Cardinality({j \in 1..Len(orders) :
                       /\ orders[j].userId = u /\ orders[j].status = "delivered"
                       /\ orders[j].createdAt > orders[i].createdAt}) < 50}

\* those of the orders in recent whose shop carries the tag v
SeenIn(recent, field, v) ==
  {i \in recent :
     /\ shops[orders[i].shopId].exists
     /\ \E k \in 1..Len(shops[orders[i].shopId][field]) :
          shops[orders[i].shopId][field][k] = v}

Seen(recent, field) ==
  UNION {{shops[orders[i].shopId][field][k] :
            k \in 1..Len(shops[orders[i].shopId][field])} :
           i \in {j \in recent : shops[orders[j].shopId].exists}}

\* every order with the tag w is older than every order with the tag v
OnlyOlder(recent, field, w, v) ==
  \A i \in SeenIn(recent, field, w), j \in SeenIn(recent, field, v) :
    orders[i].createdAt < orders[j].createdAt

\* top holds 5 of the distinct tags seen, or all of them when they are
\* fewer
FiveOfSeen(top, recent, field) ==
  /\ \A i, j \in 1..Len(top) : i # j => top[i] # top[j]
  /\ \A i \in 1..Len(top) : top[i] \in Seen(recent, field)
  /\ Len(top) = IF Cardinality(Seen(recent, field)) > 5 THEN 5
                ELSE Cardinality(Seen(recent, field))

\* top is in an order that puts older orders first, and a tag seen only in
\* older orders is taken in preference to one seen only in newer orders
OlderPreferred(top, recent, field) ==
  /\ \A i, j \in 1..Len(top) :
       i < j => ~OnlyOlder(recent, field, top[j], top[i])
  /\ \A i \in 1..Len(top) :
       \A w \in Seen(recent, field) \ {top[k] : k \in 1..Len(top)} :
         ~OnlyOlder(recent, field, w, top[i])

\* top is in an order that puts newer orders first, and a tag seen only in
\* newer orders is taken in preference to one seen only in older orders
NewerPreferred(top, recent, field) ==
  /\ \A i, j \in 1..Len(top) :
       i < j => ~OnlyOlder(recent, field, top[i], top[j])
  /\ \A i \in 1..Len(top) :
       \A w \in Seen(recent, field) \ {top[k] : k \in 1..Len(top)} :
         ~OnlyOlder(recent, field, top[i], w)

\* each recommended shop's matchScore: its cuisines in the cuisine list, its
\* menu categories in the category list, 2 for an average of 4 or more and
\* 1 when featured
MatchScoreAsStated ==
  \A s \in shopResp.shops :
    shopResp.matchScore[s] =
      Cardinality({k \in 1..Len(shops[s].cuisine) :
                     \E i \in 1..Len(shopResp.topCuisines) :
                       shopResp.topCuisines[i] = shops[s].cuisine[k]})
        + Cardinality({k \in 1..Len(shops[s].menuCategory) :
                         \E i \in 1..Len(shopResp.topCategories) :
                           shopResp.topCategories[i] = shops[s].menuCategory[k]})
        + (IF shops[s].rating.average >= 40 THEN 2 ELSE 0)
        + (IF shops[s].isFeatured THEN 1 ELSE 0)

RecommendationsAnswered ==
  shopResp.path = "recommendations" /\ shopResp.status = "ok"

\* C22 as stated: the preferred cuisines and categories are 5 of the
\* distinct tags of the shops of the user's last 50 delivered orders, taken
\* with a preference for the tags of older orders, and matchScore is as
\* stated.
C22_OlderOrdersPreferred ==
  RecommendationsAnswered =>
    LET recent == LastDelivered(shopResp.user) IN
    /\ FiveOfSeen(shopResp.topCuisines, recent, "cuisine")
    /\ FiveOfSeen(shopResp.topCategories, recent, "menuCategory")
    /\ OlderPreferred(shopResp.topCuisines, recent, "cuisine")
    /\ OlderPreferred(shopResp.topCategories, recent, "menuCategory")
    /\ MatchScoreAsStated

\* C22 (amended): the preferred cuisines and categories are 5 of the
\* distinct tags of the shops of the user's last 50 delivered orders, taken
\* with a preference for the tags of newer orders, and matchScore is as
\* stated.
C22_NewerOrdersPreferred ==
  RecommendationsAnswered =>
    LET recent == LastDelivered(shopResp.user) IN
    /\ FiveOfSeen(shopResp.topCuisines, recent, "cuisine")
    /\ FiveOfSeen(shopResp.topCategories, recent, "menuCategory")
    /\ NewerPreferred(shopResp.topCuisines, recent, "cuisine")
    /\ NewerPreferred(shopResp.topCategories, recent, "menuCategory")
    /\ MatchScoreAsStated

\* a user with more than 5 distinct cuisines in their history, some seen
\* only in older orders, is answered with 5 of them and a scored shop
C22_Witness ==
  /\ RecommendationsAnswered
  /\ Cardinality(Seen(LastDelivered(shopResp.user), "cuisine")) > 5
  /\ Len(shopResp.topCuisines) = 5
  /\ \E v \in Seen(LastDelivered(shopResp.user), "cuisine") :
       \E i \in 1..5 :
         OnlyOlder(LastDelivered(shopResp.user), "cuisine", v,
                   shopResp.topCuisines[i])
  /\ \E s \in shopResp.shops : shopResp.matchScore[s] >= 3

\* HH:MM read as minutes since midnight
MinutesOf(t) ==
  ((CharCode(t[1]) - 48) * 10 + (CharCode(t[2]) - 48)) * 60
    + (CharCode(t[4]) - 48) * 10 + (CharCode(t[5]) - 48)

\* C23: a shop is reported as currently open exactly when the time of day
\* is at or after its openTime and before its closeTime.
C23_OpenUntilClose ==
  \A s \in ShopIds :
    (shopResp.path = s /\ shopResp.status = "ok") =>
      (s \in shopResp.open <=>
         /\ MinutesOf(shops[s].openTime) <= (shopResp.now \div 60000) % 1440
         /\ (shopResp.now \div 60000) % 1440 < MinutesOf(shops[s].closeTime))

\* the shop has an order in status pending, confirmed, preparing or
\* out_for_delivery
HasOpenOrder(s) ==
  \E i \in 1..Len(orders) :
    /\ orders[i].shopId = s
    /\ orders[i].status \in
         {"pending", "confirmed", "preparing", "out_for_delivery"}

\* C24: an authorised delete request for a shop with an order in a
\* non-terminal status is answered InvalidState and leaves the shop, the
\* foods and the reviews as they are; and a shop has no such order at the
\* moment it is deactivated or deleted.
C24_DeleteBlockedByOrders ==
  [][/\ \A r \in Slots :
          (/\ reqs[r].op = "deleteShop" /\ Finishing(r)
           /\ reqs[r].shop \in ShopIds
           /\ HasOpenOrder(reqs[r].shop)
           /\ last'.resp \notin {"notfound", "forbidden"})
          => /\ last'.resp = "invalidState"
             /\ shops' = shops /\ foods' = foods /\ reviews' = reviews
     /\ \A s \in ShopIds :
          (\/ shops[s].isActive /\ ~shops'[s].isActive
           \/ shops[s].exists /\ ~shops'[s].exists)
          => ~HasOpenOrder(s)]_vars

InStandardRanges(location) ==
  /\ location[1] >= -180 /\ location[1] <= 180
  /\ location[2] >= -90 /\ location[2] <= 90

\* C25: after a shop creation or a shop update every stored shop's point is
\* within the standard ranges, and a creation or an update whose body
\* carries a point outside them is rejected and changes no stored shop: no
\* step that changes a shop or answers success is such a request.
C25_GeoPointInRange ==
  [][/\ \A s \in ShopIds :
          shops'[s].exists => InStandardRanges(shops'[s].location)
     /\ (shops' # shops \/ last'.resp \in {"ok", "created"})
          => \A s \in ShopIds, a \in Actors, b \in GeoBodies :
               ~InStandardRanges(b.location)
                 => ~(ShopCreate(s, a, b) \/ ShopUpdate(s, a, b))]_vars

\* an update with a point outside the ranges has been refused for a shop
\* created at the ends of the ranges
C25_Witness ==
  /\ last.op = "shopUpdate" /\ last.resp = "internal"
  /\ shops["s2"].exists /\ shops["s2"].location = <<180, 0>>
  /\ shops["s1"].location = <<0, -90>>

\* C27: a shop is created unverified; no creation and no update issued by
\* an actor who is not an admin leaves a shop verified that was not verified
\* before; and an update by such an actor that changes the name, the
\* licence, the address or the phone leaves the shop unverified.
C27_VerifiedOnlyByAdmin ==
  [][\A s \in ShopIds, a \in Actors, b \in VerifyBodies :
       /\ ShopCreate(s, a, b) /\ shops'[s].exists => ~shops'[s].isVerified
       /\ ~a.isAdmin /\ ShopUpdate(s, a, b)
            => /\ shops'[s].isVerified => shops[s].isVerified
               /\ (\E f \in MajorFields : shops'[s][f] # shops[s][f])
                    => ~shops'[s].isVerified]_vars

\* the step is a login verification of code o under the key e that succeeds
LoginAccepts(e, o) ==
  /\ authResp'.op = "loginVerify" /\ authResp'.resp = "ok"
  /\ issued' # issued
  /\ \E p \in PasswordArgs : LoginVerify(e, p, o)

\* the step is a registration of code o under the key e that passes the
\* comparison of the code
RegisterPasses(e, o) ==
  \E r \in Slots :
    /\ authReqs[r].op = "none" /\ authReqs'[r].op = "registerVerify"
    /\ \E p \in PasswordArgs : RequestRegisterVerify(r, e, p, o)

\* the step is a registration under the key e that succeeds
RegisterAccepts(e) ==
  \E r \in Slots :
    /\ authReqs[r].op = "registerVerify" /\ authReqs[r].email = e
    /\ authResp'.resp = "ok"
    /\ RegisterVerify(r)

IssuesTo(id) ==
  \/ \E r \in Slots :
       /\ authReqs[r].op = "refresh" /\ authReqs[r].token.id = id
       /\ authResp'.resp = "ok"
       /\ Refresh(r)
  \/ \E e \in Emails :
       /\ ToLowerCase(e) = id
       /\ (\E o \in OtpCodes : LoginAccepts(e, o)) \/ RegisterAccepts(e)

\* C29: a refresh token passes only if it is the one stored for its user,
\* the one most recently issued with no logout since; a logout leaves no
\* token stored for the user; and after a login or a refresh every refresh
\* token handed out to the user before it, the one just presented included,
\* is no longer the stored one and so is rejected.
C29_RefreshTokenRotates ==
  [][/\ \A r \in Slots :
          (authReqs[r].op = "none" /\ authReqs'[r].op = "refresh")
          => /\ refreshTokenStore[authReqs'[r].token.id] = authReqs'[r].token
             /\ authReqs'[r].token \in handedOut
     /\ \A t \in AccessArgs :
          (authResp'.op \in {"logout", "logoutAll"} /\ issued' # issued
           /\ authResp'.resp = "ok" /\ \E op \in {"logout", "logoutAll"} :
                                          Logout(op, t))
          => refreshTokenStore'[t.id] = NoToken
     /\ \A id \in Addresses :
          IssuesTo(id)
          => \A t \in handedOut :
               (t.kind = "refresh" /\ t.id = id)
               => refreshTokenStore'[id] # t]_vars

\* C30: a GET for the path /trending is answered by the trending handler
\* with the trending list, not by the single-shop route as an invalid id.
C30_TrendingRouted ==
  shopResp.path = "trending" => shopResp.status # "invalidId"

====
